---- MODULE Spec2Model ----
(***************************************************************************)
(* Ledger stores and persistence of the paper-trading application.         *)
(*                                                                         *)
(*   usePortfolioStore  (src/src/state/positionStore.ts, lines 565-837):   *)
(*       portfolios, activePortfolioId and the operations on them.         *)
(*   usePositionStore   (src/src/state/positionStore.ts, lines 81-467):    *)
(*       positions, transactions and the trading operations on them.       *)
(*   TradingStorage     (src/src/services/hyperliquidWebSocket.ts,         *)
(*       lines 315-543): the IndexedDB object stores, exportData and       *)
(*       importData, and the executeTrade of useOptimizedPositions         *)
(*       (src/src/hooks/useKeyboardShortcuts.ts, lines 490-570) on them.   *)
(*   Analytics          (src/src/utils/portfolioAnalytics.ts):             *)
(*       calculatePortfolioPerformance and calculateTradingStatistics.     *)
(*   PortfolioCalculationsWorker (src/unnamed/part_020) and its Worker     *)
(*       (src/unnamed/part_003): requests, responses and timeouts.         *)
(*   HyperliquidWebSocketClient (src/src/services/hyperliquidWebSocket.ts, *)
(*       lines 14-149): sockets, reconnect timers, connect and disconnect. *)
(*                                                                         *)
(* JavaScript numbers are modelled exactly: balances, quantities and       *)
(* prices are integers, a position's entryPrice (the result of a division) *)
(* is a normalised fraction, and a division by zero yields the IEEE        *)
(* specials (NaN and the two infinities) as fractions with denominator 0.  *)
(* Rounding of binary floating point is not modelled.                      *)
(***************************************************************************)
EXTENDS Integers, Sequences, FiniteSets, TLC

VARIABLES
    portfolios,         \* usePortfolioStore: Portfolio[]
    activePortfolioId,  \* usePortfolioStore: string | null
    idCounter,          \* number of ids generated so far (Date.now()/Math.random() ids are fresh)
    lastCall,           \* the last store call: its operation, arguments and return value
    realized,           \* per portfolio id: sum of quantity * (price - entryPrice) over executed sells
    positions,          \* usePositionStore: Position[]
    transactions,       \* usePositionStore: Transaction[]
    orders,             \* usePositionStore: Order[]
    now,                \* the clock: the value Date.now() returns
    storage,            \* TradingStorage: the object stores of the IndexedDB database
    calls,              \* the calls of useOptimizedPositions.executeTrade, by caller
    backup,             \* the snapshots exportData has returned
    worker,             \* PortfolioCalculationsWorker, its Worker and the messages in flight
    feed                \* HyperliquidWebSocketClient, its sockets and reconnect timers

vars == <<portfolios, activePortfolioId, idCounter, lastCall, realized, positions, transactions,
          orders, now, storage, calls, backup, worker, feed>>

portfolioVars == <<portfolios, activePortfolioId, realized>>
positionVars == <<positions, transactions, orders>>
storageVars == <<storage, calls, backup>>
serviceVars == <<worker, feed>>

(***************************************************************************)
(* Bounds and input sets.                                                  *)
(***************************************************************************)
MaxIds == 5
MaxTransactions == 3
MaxOrders == 2
MaxClock == 3
MaxRequests == 3
MaxSockets == 6
MaxBalance == 120000
MaxAnalyticsIds == 6

Symbols == {"BTC", "ETH"}
TradeTypes == {"buy", "sell"}
OrderSides == {"buy", "sell"}
StorePortfolioIds == {"portfolio-1"}
Names == {"Main Portfolio"}
Quantities == {1, 2}
Prices == {20000, 30000}
AnyQuantities == {-1, 0, 1}
AnyPrices == {-30000, 0, 30000}
\* prices of a price map (Record<string, number>) handed to the valuation functions
MapPrices == {0, 25000}
\* quantities of the trades on the storage
StoredQuantities == {2}
\* symbols and quantities of the orders
OrderSymbols == {"BTC"}
OrderQuantities == {1}
\* arguments of updatePortfolio and updatePortfolioBalance
UpdatedBalance == 50000
Amounts == {-60000}
\* requests to the calculation worker
CalculationTypes ==
    {"CALCULATE_PORTFOLIO_METRICS", "CALCULATE_RISK_METRICS", "CALCULATE_PERFORMANCE_ANALYTICS"}
RequestData == {"portfolio-1", "portfolio-2", "none"}
\* symbols of the trades whose log the analytics read
AnalyticsSymbols == {"BTC"}

NullId == 0
\* an id that is never generated
NoSuchId == -1
INITIAL_PORTFOLIO_BALANCE == 100000
\* DEFAULT_TRADING_FEE_PERCENT = 0.001 = 1 / FeeDivisor
FeeDivisor == 1000

(***************************************************************************)
(* Numbers.                                                                *)
(***************************************************************************)
Abs(x) == IF x < 0 THEN -x ELSE x

Sgn(x) == IF x < 0 THEN -1 ELSE IF x > 0 THEN 1 ELSE 0

RECURSIVE GCD(_, _)
GCD(a, b) == IF b = 0 THEN a ELSE GCD(b, a % b)

\* The fraction n/d, d # 0, in lowest terms with a positive denominator.
Norm(n, d) ==
    IF d = 1 THEN [num |-> n, den |-> 1]
    ELSE LET g == GCD(Abs(n), Abs(d))
         IN IF d < 0 THEN [num |-> -(n \div g), den |-> (-d) \div g]
            ELSE [num |-> n \div g, den |-> d \div g]

Num(k) == [num |-> k, den |-> 1]

NaN == [num |-> 0, den |-> 0]

IsFinite(r) == r.den # 0

\* r * k for a number r and an integer k (Infinity * 0 is NaN).
MulInt(r, k) ==
    IF r.den = 0 THEN [num |-> Sgn(r.num) * Sgn(k), den |-> 0]
    ELSE Norm(r.num * k, r.den)

\* r + k for a number r and an integer k.
AddInt(r, k) ==
    IF r.den = 0 THEN r
    ELSE Norm(r.num + k * r.den, r.den)

\* r / k for a number r and an integer k (x / 0 is an infinity, 0 / 0 is NaN).
DivInt(r, k) ==
    IF r.den = 0
    THEN IF k = 0 THEN r ELSE [num |-> Sgn(r.num) * Sgn(k), den |-> 0]
    ELSE IF k = 0 THEN [num |-> Sgn(r.num), den |-> 0]
    ELSE Norm(r.num, r.den * k)

\* r1 + r2 (an infinity plus the opposite infinity, or anything plus NaN, is NaN).
Add(r1, r2) ==
    IF r1.den = 0 /\ r2.den = 0
    THEN IF r1.num = r2.num THEN r1 ELSE NaN
    ELSE IF r1.den = 0 THEN r1
    ELSE IF r2.den = 0 THEN r2
    ELSE Norm(r1.num * r2.den + r2.num * r1.den, r1.den * r2.den)

Neg(r) == [num |-> -r.num, den |-> r.den]

\* r1 / r2 (x / 0 is an infinity, 0 / 0 is NaN).
Div(r1, r2) ==
    IF r1.den = 0 \/ r2.den = 0
    THEN IF r1.den # 0 THEN Num(0)
         ELSE IF r2.den = 0 THEN NaN
         ELSE [num |-> r1.num * (IF r2.num < 0 THEN -1 ELSE 1), den |-> 0]
    ELSE IF r2.num = 0 THEN [num |-> Sgn(r1.num), den |-> 0]
    ELSE Norm(r1.num * r2.den, r1.den * r2.num)

\* r1 < r2 and r1 > r2 (false when either is NaN).
Less(r1, r2) ==
    IF r1 = NaN \/ r2 = NaN THEN FALSE
    ELSE IF r1.den = 0 THEN r1.num < 0 /\ r2 # r1
    ELSE IF r2.den = 0 THEN r2.num > 0
    ELSE r1.num * r2.den < r2.num * r1.den

Greater(r1, r2) == Less(r2, r1)

(***************************************************************************)
(* Array helpers.                                                          *)
(***************************************************************************)
\* splice(i, 1)
RemoveAt(s, i) == SubSeq(s, 1, i - 1) \o SubSeq(s, i + 1, Len(s))

\* portfolios.findIndex(p => p.id === id); 0 stands for -1
PortfolioIndex(ps, id) ==
    IF \E i \in 1..Len(ps) : ps[i].id = id
    THEN CHOOSE i \in 1..Len(ps) : ps[i].id = id /\ \A j \in 1..(i - 1) : ps[j].id # id
    ELSE 0

\* Faulty variant: the lookup ignores the symbol and finds the first position.
PositionIndexBySymbol_IgnoresSymbol(pos, symbol) == IF Len(pos) > 0 THEN 1 ELSE 0

\* Faulty variant: the lookup never finds a position.
PositionIndexBySymbol_NeverFound(pos, symbol) == 0

\* portfolio.positions.findIndex(p => p.symbol === symbol); 0 stands for -1
PositionIndexBySymbol(pos, symbol) ==
    IF \E i \in 1..Len(pos) : pos[i].symbol = symbol
    THEN CHOOSE i \in 1..Len(pos) :
            pos[i].symbol = symbol /\ \A j \in 1..(i - 1) : pos[j].symbol # symbol
    ELSE 0

\* portfolio.positions.findIndex(p => p.id === positionId); 0 stands for -1
PositionIndexById(pos, positionId) ==
    IF \E i \in 1..Len(pos) : pos[i].id = positionId
    THEN CHOOSE i \in 1..Len(pos) :
            pos[i].id = positionId /\ \A j \in 1..(i - 1) : pos[j].id # positionId
    ELSE 0

(***************************************************************************)
(* usePortfolioStore.                                                      *)
(***************************************************************************)
\* The Portfolio object that createPortfolio and deletePortfolio construct.
NewPortfolio(portfolioId, name) ==
    [id |-> portfolioId,
     name |-> name,
     balance |-> INITIAL_PORTFOLIO_BALANCE,
     currentBalance |-> INITIAL_PORTFOLIO_BALANCE,
     initialBalance |-> INITIAL_PORTFOLIO_BALANCE,
     positions |-> <<>>,
     transactions |-> <<>>]

\* const totalCost = trade.quantity * trade.price
TotalCost(trade) == trade.quantity * trade.price

\* Faulty variant: the funds check compares the balance with the unit price.
InsufficientFunds_UnitPrice(portfolio, trade) == portfolio.balance < trade.price

\* Faulty variant: the funds check is missing.
InsufficientFunds_Unchecked(portfolio, trade) == FALSE

\* if (portfolio.balance < totalCost) return false
InsufficientFunds(portfolio, trade) == portfolio.balance < TotalCost(trade)

\* Faulty variant: the quantity check is missing.
InsufficientQuantity_Unchecked(position, trade) == FALSE

\* if (position.quantity < trade.quantity) return false
InsufficientQuantity(position, trade) == position.quantity < trade.quantity

\* Faulty variant: a sold-out position is reduced to zero instead of removed.
IsFullClose_Never(position, trade) == FALSE

\* if (position.quantity === trade.quantity): close the position completely
IsFullClose(position, trade) == position.quantity = trade.quantity

\* The Transaction object executeTrade constructs.
NewTransaction(txId, trade, portfolioId) ==
    [id |-> txId,
     symbol |-> trade.symbol,
     type |-> trade.type,
     quantity |-> trade.quantity,
     price |-> trade.price,
     timestamp |-> now,
     portfolioId |-> portfolioId]

\* Faulty variant: the mean of the two prices, not weighted by quantity.
NewAvgPrice_Unweighted(existingPosition, trade) ==
    DivInt(AddInt(existingPosition.entryPrice, trade.price), 2)

\* newAvgPrice = (existing.quantity * existing.entryPrice + totalCost) / totalQuantity
NewAvgPrice(existingPosition, trade) ==
    DivInt(AddInt(MulInt(existingPosition.entryPrice, existingPosition.quantity),
                  TotalCost(trade)),
           existingPosition.quantity + trade.quantity)

\* buy into an existing position: { ...existingPosition, quantity, entryPrice }
MergedPosition(existingPosition, trade) ==
    [existingPosition EXCEPT
        !.quantity = existingPosition.quantity + trade.quantity,
        !.entryPrice = NewAvgPrice(existingPosition, trade)]

\* buy with no position for the symbol: the new Position object
NewPosition(positionId, trade) ==
    [id |-> positionId,
     symbol |-> trade.symbol,
     quantity |-> trade.quantity,
     entryPrice |-> Num(trade.price),
     type |-> "long"]

\* Faulty variant: unshift instead of push.
PushTransaction_Unshift(txs, transaction) == <<transaction>> \o txs

\* portfolio.transactions.push(transaction)
PushTransaction(txs, transaction) == Append(txs, transaction)

\* The positions array after an accepted buy; ctr is the id counter before the call.
PositionsAfterBuy(pos, trade, ctr) ==
    LET existingPositionIndex == PositionIndexBySymbol(pos, trade.symbol)
    IN IF existingPositionIndex >= 1
       THEN [pos EXCEPT ![existingPositionIndex] =
                            MergedPosition(pos[existingPositionIndex], trade)]
       ELSE Append(pos, NewPosition(ctr + 2, trade))

\* Faulty variant: a partial sell resets the entry price to the sell price.
PositionsAfterSell_Reprices(pos, positionIndex, trade) ==
    IF pos[positionIndex].quantity = trade.quantity
    THEN RemoveAt(pos, positionIndex)
    ELSE [pos EXCEPT ![positionIndex].quantity = @ - trade.quantity,
                     ![positionIndex].entryPrice = Num(trade.price)]

\* The positions array after an accepted sell of the position at positionIndex.
PositionsAfterSell(pos, positionIndex, trade) ==
    IF IsFullClose(pos[positionIndex], trade)
    THEN RemoveAt(pos, positionIndex)
    ELSE [pos EXCEPT ![positionIndex].quantity = @ - trade.quantity]

\* Faulty variant: a buy also resets the initial balance to the new balance.
PortfolioAfterBuy_Rebases(portfolio, trade, ctr) ==
    LET balance == portfolio.balance - TotalCost(trade)
    IN [portfolio EXCEPT
            !.positions = PositionsAfterBuy(portfolio.positions, trade, ctr),
            !.balance = balance,
            !.currentBalance = balance,
            !.initialBalance = balance,
            !.transactions = PushTransaction(portfolio.transactions,
                                 NewTransaction(ctr + 1, trade, portfolio.id))]

\* The buy branch on the active portfolio, once the funds check has passed.
PortfolioAfterBuy(portfolio, trade, ctr) ==
    LET balance == portfolio.balance - TotalCost(trade)
    IN [portfolio EXCEPT
            !.positions = PositionsAfterBuy(portfolio.positions, trade, ctr),
            !.balance = balance,
            !.currentBalance = balance,
            !.transactions = PushTransaction(portfolio.transactions,
                                 NewTransaction(ctr + 1, trade, portfolio.id))]

\* Faulty variant: a sell credits the unit price, not quantity * price.
PortfolioAfterSell_CreditsPrice(portfolio, positionIndex, trade, ctr) ==
    LET balance == portfolio.balance + trade.price
    IN [portfolio EXCEPT
            !.positions = PositionsAfterSell(portfolio.positions, positionIndex, trade),
            !.balance = balance,
            !.currentBalance = balance,
            !.transactions = PushTransaction(portfolio.transactions,
                                 NewTransaction(ctr + 1, trade, portfolio.id))]

\* The sell branch on the active portfolio, once both sell checks have passed.
PortfolioAfterSell(portfolio, positionIndex, trade, ctr) ==
    LET balance == portfolio.balance + TotalCost(trade)
    IN [portfolio EXCEPT
            !.positions = PositionsAfterSell(portfolio.positions, positionIndex, trade),
            !.balance = balance,
            !.currentBalance = balance,
            !.transactions = PushTransaction(portfolio.transactions,
                                 NewTransaction(ctr + 1, trade, portfolio.id))]

\* Number of ids an accepted trade generates: the transaction's, and a new position's.
IdsOfBuy(pos, trade) == IF PositionIndexBySymbol(pos, trade.symbol) >= 1 THEN 1 ELSE 2

\* executeTrade as a function of the store state: the portfolios, the id counter
\* and the return value after the call.
TradeOutcome(ps, active, ctr, trade) ==
    LET failed == [portfolios |-> ps, idCounter |-> ctr, result |-> FALSE]
        portfolioIndex == PortfolioIndex(ps, active)
    IN IF active = NullId THEN failed
       ELSE IF portfolioIndex = 0 THEN failed
       ELSE LET portfolio == ps[portfolioIndex]
                positionIndex == PositionIndexBySymbol(portfolio.positions, trade.symbol)
            IN IF trade.type = "buy"
               THEN IF InsufficientFunds(portfolio, trade) THEN failed
                    ELSE [portfolios |-> [ps EXCEPT ![portfolioIndex] =
                                             PortfolioAfterBuy(portfolio, trade, ctr)],
                          idCounter |-> ctr + IdsOfBuy(portfolio.positions, trade),
                          result |-> TRUE]
               ELSE IF positionIndex = 0 THEN failed
                    ELSE IF InsufficientQuantity(portfolio.positions[positionIndex], trade)
                         THEN failed
                    ELSE [portfolios |-> [ps EXCEPT ![portfolioIndex] =
                                             PortfolioAfterSell(portfolio, positionIndex,
                                                                trade, ctr)],
                          idCounter |-> ctr + 1,
                          result |-> TRUE]

\* History for C2 (the store keeps no realized P&L): quantity * (price - entryPrice),
\* with the position's entryPrice before the call, of an accepted sell; 0 otherwise.
RealizedOf(ps, active, trade, accepted) ==
    IF accepted /\ trade.type = "sell"
    THEN LET portfolio == ps[PortfolioIndex(ps, active)]
             position == portfolio.positions[
                            PositionIndexBySymbol(portfolio.positions, trade.symbol)]
         IN AddInt(Neg(MulInt(position.entryPrice, trade.quantity)), TotalCost(trade))
    ELSE Num(0)

NoRealized == [id \in 1..(MaxIds + 2) |-> Num(0)]

InitPortfolioStore ==
    /\ portfolios = <<>>
    /\ activePortfolioId = NullId
    /\ realized = NoRealized

InitPositionStore ==
    /\ positions = <<>>
    /\ transactions = <<>>
    /\ orders = <<>>

\* The callers that can have a call of useOptimizedPositions.executeTrade in flight.
CallIds == {1, 2}

\* The database after init(): four empty object stores; the settings store is given by
\* the value under its one key, activePortfolioId.
EmptyStorage ==
    [portfolios |-> {}, positions |-> {}, transactions |-> {}, activePortfolioId |-> NullId]

NoBackup == [taken |-> FALSE]

InitStorage ==
    /\ storage = EmptyStorage
    /\ calls = [c \in CallIds |-> [pc |-> "idle"]]
    /\ backup = NoBackup

\* new PortfolioCalculationsWorker(): messageId = 0, no pending request; the Worker has
\* received nothing (inbox) and posted nothing (outbox); no Promise has been returned.
InitWorker ==
    worker = [messageId |-> 0, pendingRequests |-> {}, inbox |-> <<>>, outbox |-> <<>>,
              promises |-> <<>>]

\* new HyperliquidWebSocketClient(): ws = null, isConnected = false,
\* reconnectAttempts = 0; no WebSocket has been created and no timer is set.  stopped
\* records that disconnect() was the caller's last call.
InitFeed ==
    feed = [ws |-> NullId, isConnected |-> FALSE, reconnectAttempts |-> 0,
            sockets |-> <<>>, timers |-> 0, stopped |-> FALSE]

Init ==
    /\ InitPortfolioStore
    /\ InitPositionStore
    /\ InitStorage
    /\ InitWorker
    /\ InitFeed
    /\ idCounter = 0
    /\ now = 0
    /\ lastCall = [op |-> "init"]

\* Faulty variant: the new portfolio always becomes the active one.
createPortfolio_AlwaysActivates(name) ==
    LET portfolioId == idCounter + 1
    IN /\ idCounter < MaxIds
       /\ portfolios' = Append(portfolios, NewPortfolio(portfolioId, name))
       /\ activePortfolioId' = portfolioId
       /\ idCounter' = portfolioId
       /\ lastCall' = [op |-> "createPortfolio", result |-> portfolioId]
       /\ UNCHANGED <<now, serviceVars, realized, positionVars, storageVars>>

createPortfolio(name) ==
    LET portfolioId == idCounter + 1
    IN /\ idCounter < MaxIds
       /\ portfolios' = Append(portfolios, NewPortfolio(portfolioId, name))
       /\ activePortfolioId' =
              IF activePortfolioId # NullId THEN activePortfolioId ELSE portfolioId
       /\ idCounter' = portfolioId
       /\ lastCall' = [op |-> "createPortfolio", result |-> portfolioId]
       /\ UNCHANGED <<now, serviceVars, realized, positionVars, storageVars>>

\* state.portfolios.filter(p => p.id !== portfolioId)
RemainingPortfolios(ps, portfolioId) ==
    SelectSeq(ps, LAMBDA p : p.id # portfolioId)

\* Faulty variant: no default portfolio is created when none remains.
deletePortfolio_LeavesEmpty(portfolioId) ==
    LET remainingPortfolios == RemainingPortfolios(portfolios, portfolioId)
    IN /\ portfolios' = remainingPortfolios
       /\ activePortfolioId' =
              IF activePortfolioId = portfolioId
              THEN IF Len(remainingPortfolios) > 0 THEN remainingPortfolios[1].id ELSE NullId
              ELSE activePortfolioId
       /\ idCounter' = idCounter
       /\ realized' = [realized EXCEPT ![portfolioId] = Num(0)]
       /\ lastCall' = [op |-> "deletePortfolio", portfolioId |-> portfolioId]
       /\ UNCHANGED <<now, serviceVars, positionVars, storageVars>>

deletePortfolio(portfolioId) ==
    LET remainingPortfolios == RemainingPortfolios(portfolios, portfolioId)
        defaultPortfolioId == idCounter + 1
    IN /\ IF Len(remainingPortfolios) = 0
          THEN /\ idCounter < MaxIds
               /\ portfolios' = <<NewPortfolio(defaultPortfolioId, "Default Portfolio")>>
               /\ activePortfolioId' = defaultPortfolioId
               /\ idCounter' = defaultPortfolioId
          ELSE /\ portfolios' = remainingPortfolios
               /\ activePortfolioId' =
                      IF activePortfolioId = portfolioId
                      THEN remainingPortfolios[1].id
                      ELSE activePortfolioId
               /\ idCounter' = idCounter
       /\ realized' = [realized EXCEPT ![portfolioId] = Num(0)]
       /\ lastCall' = [op |-> "deletePortfolio", portfolioId |-> portfolioId]
       /\ UNCHANGED <<now, serviceVars, positionVars, storageVars>>

\* Faulty variant: the id is not looked up.
setActivePortfolio_Unchecked(portfolioId) ==
    /\ activePortfolioId' = portfolioId
    /\ lastCall' = [op |-> "setActivePortfolio", portfolioId |-> portfolioId]
    /\ UNCHANGED <<now, serviceVars, portfolios, idCounter, realized, positionVars, storageVars>>

setActivePortfolio(portfolioId) ==
    /\ activePortfolioId' =
           IF PortfolioIndex(portfolios, portfolioId) # 0
           THEN portfolioId
           ELSE activePortfolioId
    /\ lastCall' = [op |-> "setActivePortfolio", portfolioId |-> portfolioId]
    /\ UNCHANGED <<now, serviceVars, portfolios, idCounter, realized, positionVars, storageVars>>

\* executeTrade, enabled while it generates no id beyond maxIds.
executeTradeWithin(maxIds, type, symbol, quantity, price) ==
    LET trade == [symbol |-> symbol, type |-> type, quantity |-> quantity, price |-> price]
    IN \E out \in {TradeOutcome(portfolios, activePortfolioId, idCounter, trade)} :
       /\ out.idCounter <= maxIds
       /\ portfolios' = out.portfolios
       /\ idCounter' = out.idCounter
       /\ realized' =
              IF out.result
              THEN [realized EXCEPT ![activePortfolioId] =
                        Add(@, RealizedOf(portfolios, activePortfolioId, trade, TRUE))]
              ELSE realized
       /\ lastCall' = [op |-> "executeTrade", type |-> type, symbol |-> symbol,
                       quantity |-> quantity, price |-> price, result |-> out.result]
       /\ UNCHANGED <<now, serviceVars, activePortfolioId, positionVars, storageVars>>

executeTrade(type, symbol, quantity, price) ==
    executeTradeWithin(MaxIds, type, symbol, quantity, price)

\* Faulty variant: closePosition sells one unit, not the position's quantity.
CloseTrade_SellsOne(ps, active, positionId, currentPrice) ==
    LET portfolioIndex == PortfolioIndex(ps, active)
    IN IF active = NullId THEN [found |-> FALSE]
       ELSE IF portfolioIndex = 0 THEN [found |-> FALSE]
       ELSE LET portfolio == ps[portfolioIndex]
                positionIndex == PositionIndexById(portfolio.positions, positionId)
            IN IF positionIndex = 0 THEN [found |-> FALSE]
               ELSE [found |-> TRUE,
                     symbol |-> portfolio.positions[positionIndex].symbol,
                     type |-> "sell",
                     quantity |-> 1,
                     price |-> currentPrice]

\* closePosition's lookups: the trade it hands to executeTrade (found), or not found
\* when it returns false before that.
CloseTrade(ps, active, positionId, currentPrice) ==
    LET portfolioIndex == PortfolioIndex(ps, active)
    IN IF active = NullId THEN [found |-> FALSE]
       ELSE IF portfolioIndex = 0 THEN [found |-> FALSE]
       ELSE LET portfolio == ps[portfolioIndex]
                positionIndex == PositionIndexById(portfolio.positions, positionId)
            IN IF positionIndex = 0 THEN [found |-> FALSE]
               ELSE [found |-> TRUE,
                     symbol |-> portfolio.positions[positionIndex].symbol,
                     type |-> "sell",
                     quantity |-> portfolio.positions[positionIndex].quantity,
                     price |-> currentPrice]

closePosition(positionId, currentPrice) ==
    \E trade \in {CloseTrade(portfolios, activePortfolioId, positionId, currentPrice)} :
    \E out \in {IF ~trade.found
                 THEN [portfolios |-> portfolios, idCounter |-> idCounter, result |-> FALSE]
                 ELSE TradeOutcome(portfolios, activePortfolioId, idCounter, trade)} :
       /\ out.idCounter <= MaxIds
       /\ portfolios' = out.portfolios
       /\ idCounter' = out.idCounter
       /\ realized' =
              IF out.result
              THEN [realized EXCEPT ![activePortfolioId] =
                        Add(@, RealizedOf(portfolios, activePortfolioId, trade, TRUE))]
              ELSE realized
       /\ lastCall' = [op |-> "closePosition", positionId |-> positionId,
                       price |-> currentPrice, result |-> out.result]
       /\ UNCHANGED <<now, serviceVars, activePortfolioId, positionVars, storageVars>>

\* The portfolio ids a caller can pass: those of the store, and one that is not.
PortfolioIds == {portfolios[i].id : i \in 1..Len(portfolios)} \cup {idCounter + 1}

\* The position ids a caller can pass: those of any portfolio, and one that is not.
PositionIds ==
    UNION {{portfolios[i].positions[k].id : k \in 1..Len(portfolios[i].positions)} :
              i \in 1..Len(portfolios)}
        \cup {idCounter + 1}

Next ==
    \/ \E name \in Names : createPortfolio(name)
    \/ \E portfolioId \in PortfolioIds : deletePortfolio(portfolioId)
    \/ \E portfolioId \in PortfolioIds : setActivePortfolio(portfolioId)
    \/ \E type \in TradeTypes, symbol \in Symbols, quantity \in Quantities, price \in Prices :
           executeTrade(type, symbol, quantity, price)
    \/ \E positionId \in PositionIds, price \in Prices : closePosition(positionId, price)

Spec == Init /\ [][Next]_vars

\* The same store driven with any numbers, valid or not, as quantity and price.
NextAny ==
    \/ \E name \in Names : createPortfolio(name)
    \/ \E type \in TradeTypes, symbol \in Symbols,
          quantity \in AnyQuantities, price \in AnyPrices :
           executeTrade(type, symbol, quantity, price)
    \/ \E positionId \in PositionIds, price \in AnyPrices :
           closePosition(positionId, price)

SpecAny == Init /\ [][NextAny]_vars

(***************************************************************************)
(* usePortfolioStore: the methods kept for tests and compatibility.        *)
(***************************************************************************)
\* { ...p, ...updates }
Merge(object, updates) ==
    [f \in DOMAIN object \cup DOMAIN updates |->
        IF f \in DOMAIN updates THEN updates[f] ELSE object[f]]

\* { ...p, ...updates, currentBalance: updates.currentBalance !== undefined
\*       ? updates.currentBalance
\*       : (updates.balance !== undefined ? updates.balance : p.currentBalance) }
UpdatedBy(p, updates) ==
    [Merge(p, updates) EXCEPT
        !.currentBalance = IF "currentBalance" \in DOMAIN updates THEN updates.currentBalance
                           ELSE IF "balance" \in DOMAIN updates THEN updates.balance
                           ELSE p.currentBalance]

updatePortfolio(portfolioId, updates) ==
    /\ portfolios' = [i \in 1..Len(portfolios) |->
                         IF portfolios[i].id = portfolioId
                         THEN UpdatedBy(portfolios[i], updates)
                         ELSE portfolios[i]]
    /\ lastCall' = [op |-> "updatePortfolio", portfolioId |-> portfolioId,
                    updates |-> updates]
    /\ UNCHANGED <<now, serviceVars, activePortfolioId, realized, idCounter, positionVars, storageVars>>

\* Faulty variant: the active portfolio id is kept.
resetPortfolios_KeepsActive ==
    /\ portfolios' = <<>>
    /\ realized' = NoRealized
    /\ lastCall' = [op |-> "resetPortfolios"]
    /\ UNCHANGED <<now, serviceVars, activePortfolioId, idCounter, positionVars, storageVars>>

resetPortfolios ==
    /\ portfolios' = <<>>
    /\ activePortfolioId' = NullId
    /\ realized' = NoRealized
    /\ lastCall' = [op |-> "resetPortfolios"]
    /\ UNCHANGED <<now, serviceVars, idCounter, positionVars, storageVars>>

updatePortfolioBalance(portfolioId, amount) ==
    /\ \A i \in 1..Len(portfolios) :
           portfolios[i].id = portfolioId => Abs(portfolios[i].balance + amount) <= MaxBalance
    /\ portfolios' = [i \in 1..Len(portfolios) |->
                         IF portfolios[i].id = portfolioId
                         THEN [portfolios[i] EXCEPT
                                  !.balance = portfolios[i].balance + amount,
                                  !.currentBalance = portfolios[i].balance + amount]
                         ELSE portfolios[i]]
    /\ lastCall' = [op |-> "updatePortfolioBalance", portfolioId |-> portfolioId,
                    amount |-> amount]
    /\ UNCHANGED <<now, serviceVars, activePortfolioId, realized, idCounter, positionVars, storageVars>>

\* The updates a caller of updatePortfolio passes: a name, a balance, a currentBalance.
PortfolioUpdates ==
    {[name |-> "Updated Portfolio"], [balance |-> UpdatedBalance],
     [currentBalance |-> UpdatedBalance]}

\* The store with the portfolios reset between uses.
NextReset ==
    \/ Next
    \/ resetPortfolios

SpecReset == Init /\ [][NextReset]_vars

\* The store with balances and fields set from outside.
NextUpdate ==
    \/ \E name \in Names : portfolios = <<>> /\ createPortfolio(name)
    \/ \E portfolioId \in PortfolioIds : deletePortfolio(portfolioId)
    \/ \E type \in TradeTypes, symbol \in AnalyticsSymbols,
          quantity \in StoredQuantities, price \in Prices :
           executeTrade(type, symbol, quantity, price)
    \/ \E positionId \in PositionIds, price \in Prices : closePosition(positionId, price)
    \/ \E portfolioId \in PortfolioIds, updates \in PortfolioUpdates :
           updatePortfolio(portfolioId, updates)
    \/ \E portfolioId \in PortfolioIds, amount \in Amounts :
           updatePortfolioBalance(portfolioId, amount)

SpecUpdate == Init /\ [][NextUpdate]_vars

(***************************************************************************)
(* usePositionStore.                                                       *)
(***************************************************************************)
\* calculatePositionPnL(position, currentPrice).unrealizedPnL; quantity is the set
\* holding position.quantity, empty when the caller passes an object without one
\* (a number times undefined is NaN).
UnrealizedPnL(side, entryPrice, quantity, currentPrice) ==
    LET multiplier == IF side = "buy" THEN 1 ELSE -1
        priceChange == AddInt(Neg(entryPrice), currentPrice)
    IN IF quantity = {} THEN NaN
       ELSE MulInt(MulInt(priceChange, multiplier), CHOOSE q \in quantity : TRUE)

\* calculatePositionPnL(position, currentPrice).unrealizedPnLPercent
UnrealizedPnLPercent(side, entryPrice, currentPrice) ==
    LET multiplier == IF side = "buy" THEN 1 ELSE -1
        priceChange == AddInt(Neg(entryPrice), currentPrice)
    IN IF IsFinite(entryPrice) /\ entryPrice.num > 0
       THEN MulInt(MulInt([num |-> priceChange.num * entryPrice.den,
                           den |-> priceChange.den * entryPrice.num], 100), multiplier)
       ELSE Num(0)

\* fee = quantity * price * DEFAULT_TRADING_FEE_PERCENT
Fee(quantity, price) == Norm(quantity * price, FeeDivisor)

\* positions.find(p => p.portfolioId === portfolioId && p.symbol === symbol); 0: undefined
ExistingPositionIndex(pos, portfolioId, symbol) ==
    IF \E i \in 1..Len(pos) : pos[i].portfolioId = portfolioId /\ pos[i].symbol = symbol
    THEN CHOOSE i \in 1..Len(pos) :
            /\ pos[i].portfolioId = portfolioId /\ pos[i].symbol = symbol
            /\ \A j \in 1..(i - 1) :
                   ~(pos[j].portfolioId = portfolioId /\ pos[j].symbol = symbol)
    ELSE 0

\* addPosition: positions with the new Position appended
AddPosition(pos, positionId, portfolioId, symbol, side, quantity, price, pnlQuantity) ==
    Append(pos,
           [id |-> positionId,
            portfolioId |-> portfolioId,
            symbol |-> symbol,
            side |-> side,
            quantity |-> quantity,
            entryPrice |-> Num(price),
            currentPrice |-> price,
            unrealizedPnL |-> UnrealizedPnL(side, Num(price), pnlQuantity, price),
            unrealizedPnLPercent |-> UnrealizedPnLPercent(side, Num(price), price)])

\* Faulty variant: the mean of the two prices, not weighted by quantity.
NewEntryPrice_Unweighted(existingPosition, quantity, price) ==
    DivInt(AddInt(existingPosition.entryPrice, price), 2)

\* newEntryPrice = (existing.entryPrice * existing.quantity + price * quantity) / newQuantity
NewEntryPrice(existingPosition, quantity, price) ==
    DivInt(AddInt(MulInt(existingPosition.entryPrice, existingPosition.quantity),
                  price * quantity),
           existingPosition.quantity + quantity)

\* updatePosition(id, { quantity, entryPrice, currentPrice }) of the same-side branch
AddToPosition(pos, id, quantity, entryPrice, currentPrice) ==
    [i \in 1..Len(pos) |->
        IF pos[i].id = id
        THEN [pos[i] EXCEPT !.quantity = quantity,
                            !.entryPrice = entryPrice,
                            !.currentPrice = currentPrice]
        ELSE pos[i]]

\* updatePosition(id, { quantity, currentPrice }) of the reduce branch
ReducePosition(pos, id, quantity, currentPrice) ==
    [i \in 1..Len(pos) |->
        IF pos[i].id = id
        THEN [pos[i] EXCEPT !.quantity = quantity, !.currentPrice = currentPrice]
        ELSE pos[i]]

\* addTransaction: transactions with the new Transaction appended
AddTransaction(txs, txId, portfolioId, symbol, side, quantity, price) ==
    LET fee == Fee(quantity, price)
        grossAmount == quantity * price
        netAmount == IF side = "buy" THEN AddInt(fee, grossAmount)
                     ELSE AddInt(Neg(fee), grossAmount)
    IN Append(txs,
              [id |-> txId,
               portfolioId |-> portfolioId,
               symbol |-> symbol,
               side |-> side,
               quantity |-> quantity,
               price |-> price,
               fee |-> fee,
               total |-> netAmount])

\* usePositionStore.closePosition as a function of the store state.
CloseOutcome(pos, txs, ctr, id, closePrice) ==
    LET found == \E i \in 1..Len(pos) : pos[i].id = id
        position == pos[CHOOSE i \in 1..Len(pos) :
                            pos[i].id = id /\ \A j \in 1..(i - 1) : pos[j].id # id]
        fee == Fee(position.quantity, closePrice)
        netAmount == AddInt(Neg(fee), position.quantity * closePrice)
    IN IF ~found
       THEN [positions |-> pos, transactions |-> txs, idCounter |-> ctr]
       ELSE [positions |-> SelectSeq(pos, LAMBDA p : p.id # id),
             transactions |->
                 Append(txs,
                        [id |-> ctr + 1,
                         portfolioId |-> position.portfolioId,
                         symbol |-> position.symbol,
                         side |-> IF position.side = "buy" THEN "sell" ELSE "buy",
                         quantity |-> position.quantity,
                         price |-> closePrice,
                         fee |-> fee,
                         total |-> netAmount]),
             idCounter |-> ctr + 1]

\* usePositionStore.executeTrade as a function of the store state.
PositionTradeOutcome(pos, txs, ctr, portfolioId, symbol, side, quantity, price) ==
    LET transactionId == ctr + 1
        txs1 == AddTransaction(txs, transactionId, portfolioId, symbol, side, quantity, price)
        existingIndex == ExistingPositionIndex(pos, portfolioId, symbol)
        existingPosition == pos[existingIndex]
        closed == CloseOutcome(pos, txs1, ctr + 1, existingPosition.id, price)
    IN IF existingIndex # 0
       THEN IF existingPosition.side = side
            THEN [positions |->
                      AddToPosition(pos, existingPosition.id,
                                    existingPosition.quantity + quantity,
                                    NewEntryPrice(existingPosition, quantity, price), price),
                  transactions |-> txs1,
                  idCounter |-> ctr + 1,
                  result |-> [success |-> TRUE, positionId |-> existingPosition.id,
                              transactionId |-> transactionId]]
            ELSE IF quantity >= existingPosition.quantity
                 THEN IF quantity > existingPosition.quantity
                      THEN [positions |->
                                AddPosition(closed.positions, closed.idCounter + 1,
                                            portfolioId, symbol, side,
                                            quantity - existingPosition.quantity, price,
                                            {existingPosition.quantity}),
                            transactions |-> closed.transactions,
                            idCounter |-> closed.idCounter + 1,
                            result |-> [success |-> TRUE,
                                        positionId |-> closed.idCounter + 1,
                                        transactionId |-> transactionId]]
                      ELSE [positions |-> closed.positions,
                            transactions |-> closed.transactions,
                            idCounter |-> closed.idCounter,
                            result |-> [success |-> TRUE, positionId |-> NullId,
                                        transactionId |-> transactionId]]
                 ELSE [positions |->
                           ReducePosition(pos, existingPosition.id,
                                          existingPosition.quantity - quantity, price),
                       transactions |-> txs1,
                       idCounter |-> ctr + 1,
                       result |-> [success |-> TRUE, positionId |-> existingPosition.id,
                                   transactionId |-> transactionId]]
       ELSE [positions |-> AddPosition(pos, ctr + 2, portfolioId, symbol, side,
                                       quantity, price, {}),
             transactions |-> txs1,
             idCounter |-> ctr + 2,
             result |-> [success |-> TRUE, positionId |-> ctr + 2,
                         transactionId |-> transactionId]]

positionExecuteTrade(portfolioId, symbol, side, quantity, price) ==
    \E out \in {PositionTradeOutcome(positions, transactions, idCounter,
                                      portfolioId, symbol, side, quantity, price)} :
       /\ Len(out.transactions) <= MaxTransactions
       /\ positions' = out.positions
       /\ transactions' = out.transactions
       /\ idCounter' = out.idCounter
       /\ lastCall' = [op |-> "positionStore.executeTrade", portfolioId |-> portfolioId,
                       symbol |-> symbol, side |-> side, quantity |-> quantity,
                       price |-> price, result |-> out.result]
       /\ UNCHANGED <<now, serviceVars, orders, portfolioVars, storageVars>>

positionClosePosition(id, closePrice) ==
    \E out \in {CloseOutcome(positions, transactions, idCounter, id, closePrice)} :
       /\ Len(out.transactions) <= MaxTransactions
       /\ positions' = out.positions
       /\ transactions' = out.transactions
       /\ idCounter' = out.idCounter
       /\ lastCall' = [op |-> "positionStore.closePosition", id |-> id,
                       closePrice |-> closePrice]
       /\ UNCHANGED <<now, serviceVars, orders, portfolioVars, storageVars>>

\* The position ids a caller can pass: those of the store, and one that is not.
StorePositionIds == {positions[k].id : k \in 1..Len(positions)} \cup {idCounter + 1}

NextPositionStore ==
    \/ \E portfolioId \in StorePortfolioIds, symbol \in Symbols, side \in OrderSides,
          quantity \in Quantities, price \in Prices :
           positionExecuteTrade(portfolioId, symbol, side, quantity, price)
    \/ \E id \in StorePositionIds, closePrice \in Prices :
           positionClosePosition(id, closePrice)

SpecPositionStore == Init /\ [][NextPositionStore]_vars

(***************************************************************************)
(* usePositionStore: orders.  An Order is the record of the fields it has: *)
(* filledPrice is absent until updateOrder adds it.                        *)
(***************************************************************************)
\* orders.find(o => o.id === id); 0: undefined
OrderIndex(ords, id) ==
    IF \E i \in 1..Len(ords) : ords[i].id = id
    THEN CHOOSE i \in 1..Len(ords) : ords[i].id = id /\ \A j \in 1..(i - 1) : ords[j].id # id
    ELSE 0

\* state.orders.map(order => order.id === id ? { ...order, ...updates } : order)
UpdateOrder(ords, id, updates) ==
    [i \in 1..Len(ords) |-> IF ords[i].id = id THEN Merge(ords[i], updates) ELSE ords[i]]

addOrder(portfolioId, symbol, side, quantity) ==
    LET id == idCounter + 1
    IN /\ Len(orders) < MaxOrders
       /\ orders' = Append(orders,
                           Merge([id |-> id, portfolioId |-> portfolioId, symbol |-> symbol,
                                  side |-> side, quantity |-> quantity],
                                 [status |-> "pending"]))
       /\ idCounter' = id
       /\ lastCall' = [op |-> "addOrder", result |-> id]
       /\ UNCHANGED <<now, serviceVars, positions, transactions, portfolioVars, storageVars>>

updateOrder(id, updates) ==
    /\ orders' = UpdateOrder(orders, id, updates)
    /\ lastCall' = [op |-> "updateOrder", id |-> id, updates |-> updates]
    /\ UNCHANGED <<now, serviceVars, positions, transactions, idCounter, portfolioVars, storageVars>>

\* fillOrder: the order as found at the call is the one whose fields are traded.
fillOrder(id, fillPrice) ==
    LET index == OrderIndex(orders, id)
        order == orders[index]
    IN /\ lastCall' = [op |-> "fillOrder", id |-> id, fillPrice |-> fillPrice]
       /\ IF index = 0
          THEN UNCHANGED <<positionVars, idCounter>>
          ELSE \E out \in {PositionTradeOutcome(positions, transactions, idCounter,
                                                 order.portfolioId, order.symbol, order.side,
                                                 order.quantity, fillPrice)} :
                  /\ Len(out.transactions) <= MaxTransactions
                  /\ orders' = UpdateOrder(orders, id, [status |-> "filled",
                                                        filledPrice |-> fillPrice])
                  /\ positions' = out.positions
                  /\ transactions' = out.transactions
                  /\ idCounter' = out.idCounter
       /\ UNCHANGED <<now, serviceVars, portfolioVars, storageVars>>

cancelOrder(id) ==
    /\ orders' = UpdateOrder(orders, id, [status |-> "cancelled"])
    /\ lastCall' = [op |-> "cancelOrder", id |-> id]
    /\ UNCHANGED <<now, serviceVars, positions, transactions, idCounter, portfolioVars, storageVars>>

\* The order ids a caller can pass: those of the store, and one that is not.
OrderIds == {orders[k].id : k \in 1..Len(orders)} \cup {idCounter + 1}

\* The updates a caller of updateOrder passes: a new quantity.
OrderUpdates == {[quantity |-> 2]}

NextOrders ==
    \/ \E portfolioId \in StorePortfolioIds, symbol \in OrderSymbols, side \in OrderSides,
          quantity \in OrderQuantities :
           addOrder(portfolioId, symbol, side, quantity)
    \/ \E id \in OrderIds, updates \in OrderUpdates : updateOrder(id, updates)
    \/ \E id \in OrderIds, fillPrice \in Prices : fillOrder(id, fillPrice)
    \/ \E id \in OrderIds : cancelOrder(id)

SpecOrders == Init /\ [][NextOrders]_vars

(***************************************************************************)
(* Valuation: the functions of both stores that take a price map.         *)
(***************************************************************************)
\* The price maps a caller can pass: a price for some of the symbols.
PriceMaps == UNION {[S -> MapPrices] : S \in SUBSET Symbols}

\* currentPrices[symbol] || fallback: a missing price is undefined, and undefined and 0
\* are falsy.
PriceOr(currentPrices, symbol, fallback) ==
    IF symbol \in DOMAIN currentPrices
    THEN IF currentPrices[symbol] # 0 THEN Num(currentPrices[symbol]) ELSE fallback
    ELSE fallback

RECURSIVE AddPositionValues(_, _, _)
\* portfolio.positions.forEach: totalValue += position.quantity * currentPrice
AddPositionValues(totalValue, pos, currentPrices) ==
    IF pos = <<>> THEN totalValue
    ELSE AddPositionValues(
             Add(totalValue,
                 MulInt(PriceOr(currentPrices, Head(pos).symbol, Head(pos).entryPrice),
                        Head(pos).quantity)),
             Tail(pos), currentPrices)

\* usePortfolioStore.getPortfolioValue as a function of the store state.
PortfolioValue(ps, portfolioId, currentPrices) ==
    LET portfolioIndex == PortfolioIndex(ps, portfolioId)
    IN IF portfolioIndex = 0 THEN Num(0)
       ELSE AddPositionValues(Num(ps[portfolioIndex].balance),
                              ps[portfolioIndex].positions, currentPrices)

\* usePortfolioStore.getTotalPnL as a function of the store state.
TotalPnL(ps, portfolioId, currentPrices) ==
    LET portfolioIndex == PortfolioIndex(ps, portfolioId)
    IN IF portfolioIndex = 0 THEN Num(0)
       ELSE AddInt(PortfolioValue(ps, portfolioId, currentPrices),
                   -ps[portfolioIndex].initialBalance)

\* Faulty variant: the value is cached in the portfolio's currentBalance.
getPortfolioValue_Caches(portfolioId, currentPrices) ==
    /\ lastCall' = [op |-> "getPortfolioValue", portfolioId |-> portfolioId,
                    currentPrices |-> currentPrices,
                    result |-> PortfolioValue(portfolios, portfolioId, currentPrices)]
    /\ portfolios' = [i \in 1..Len(portfolios) |->
                         IF portfolios[i].id = portfolioId
                         THEN [portfolios[i] EXCEPT !.currentBalance = 0]
                         ELSE portfolios[i]]
    /\ UNCHANGED <<now, serviceVars, activePortfolioId, realized, idCounter, positionVars, storageVars>>

getPortfolioValue(portfolioId, currentPrices) ==
    /\ lastCall' = [op |-> "getPortfolioValue", portfolioId |-> portfolioId,
                    currentPrices |-> currentPrices,
                    result |-> PortfolioValue(portfolios, portfolioId, currentPrices)]
    /\ UNCHANGED <<now, serviceVars, portfolioVars, idCounter, positionVars, storageVars>>

calculatePortfolioValue(portfolioId, currentPrices) ==
    /\ lastCall' = [op |-> "calculatePortfolioValue", portfolioId |-> portfolioId,
                    currentPrices |-> currentPrices,
                    result |-> PortfolioValue(portfolios, portfolioId, currentPrices)]
    /\ UNCHANGED <<now, serviceVars, portfolioVars, idCounter, positionVars, storageVars>>

getTotalPnL(portfolioId, currentPrices) ==
    /\ lastCall' = [op |-> "getTotalPnL", portfolioId |-> portfolioId,
                    currentPrices |-> currentPrices,
                    result |-> TotalPnL(portfolios, portfolioId, currentPrices)]
    /\ UNCHANGED <<now, serviceVars, portfolioVars, idCounter, positionVars, storageVars>>

\* getPositionsByPortfolio: positions.filter(p => p.portfolioId === portfolioId)
PositionsByPortfolio(pos, portfolioId) ==
    SelectSeq(pos, LAMBDA p : p.portfolioId = portfolioId)

\* getPortfolioStats: the price and the P&L of position p under the price map
StatsPrice(p, currentPrices) == PriceOr(currentPrices, p.symbol, Num(p.currentPrice))

StatsPnL(p, currentPrices) ==
    LET currentPrice == StatsPrice(p, currentPrices)
        multiplier == IF p.side = "buy" THEN 1 ELSE -1
    IN MulInt(MulInt(Add(currentPrice, Neg(p.entryPrice)), multiplier), p.quantity)

StatsPnLPercent(p, currentPrices) ==
    LET currentPrice == StatsPrice(p, currentPrices)
        multiplier == IF p.side = "buy" THEN 1 ELSE -1
    IN IF Greater(p.entryPrice, Num(0))
       THEN MulInt(MulInt(Div(Add(currentPrice, Neg(p.entryPrice)), p.entryPrice), 100),
                   multiplier)
       ELSE Num(0)

RECURSIVE StatsLoop(_, _, _)
\* positions.forEach of getPortfolioStats, acc holding the loop's variables
StatsLoop(acc, pos, currentPrices) ==
    IF pos = <<>> THEN acc
    ELSE LET position == Head(pos)
             unrealizedPnLPercent == StatsPnLPercent(position, currentPrices)
             gains == Greater(unrealizedPnLPercent, acc.maxGain)
             loses == Less(unrealizedPnLPercent, acc.maxLoss)
         IN StatsLoop(
                [totalValue |-> Add(acc.totalValue,
                                    MulInt(StatsPrice(position, currentPrices),
                                           position.quantity)),
                 totalPnL |-> Add(acc.totalPnL, StatsPnL(position, currentPrices)),
                 maxGain |-> IF gains THEN unrealizedPnLPercent ELSE acc.maxGain,
                 topGainer |-> IF gains THEN position.id ELSE acc.topGainer,
                 maxLoss |-> IF loses THEN unrealizedPnLPercent ELSE acc.maxLoss,
                 topLoser |-> IF loses THEN position.id ELSE acc.topLoser],
                Tail(pos), currentPrices)

\* usePositionStore.getPortfolioStats as a function of the store state; topGainer and
\* topLoser are given by the id of the position (NullId: null).
PortfolioStats(pos, portfolioId, currentPrices) ==
    LET mine == PositionsByPortfolio(pos, portfolioId)
        acc == StatsLoop([totalValue |-> Num(0), totalPnL |-> Num(0),
                          maxGain |-> [num |-> -1, den |-> 0], topGainer |-> NullId,
                          maxLoss |-> [num |-> 1, den |-> 0], topLoser |-> NullId],
                         mine, currentPrices)
    IN IF Len(mine) = 0
       THEN [totalValue |-> Num(0), totalPnL |-> Num(0), totalPnLPercent |-> Num(0),
             positionsCount |-> 0, topGainer |-> NullId, topLoser |-> NullId]
       ELSE [totalValue |-> acc.totalValue,
             totalPnL |-> acc.totalPnL,
             totalPnLPercent |->
                 IF Greater(acc.totalValue, Num(0))
                 THEN MulInt(Div(acc.totalPnL, Add(acc.totalValue, Neg(acc.totalPnL))), 100)
                 ELSE Num(0),
             positionsCount |-> Len(mine),
             topGainer |-> acc.topGainer,
             topLoser |-> acc.topLoser]

getPortfolioStats(portfolioId, currentPrices) ==
    /\ lastCall' = [op |-> "getPortfolioStats", portfolioId |-> portfolioId,
                    currentPrices |-> currentPrices,
                    result |-> PortfolioStats(positions, portfolioId, currentPrices)]
    /\ UNCHANGED <<now, serviceVars, portfolioVars, idCounter, positionVars, storageVars>>

\* The portfolio ids a caller of usePositionStore can pass: one in use, one that is not.
StatsPortfolioIds == StorePortfolioIds \cup {"portfolio-2"}

\* Trading and valuation in either store (the stores share no state).
NextValuation ==
    \/ /\ positions = <<>> /\ transactions = <<>>
       /\ \/ \E name \in Names : createPortfolio(name)
          \/ \E type \in TradeTypes, symbol \in Symbols,
                quantity \in Quantities, price \in Prices :
                 executeTrade(type, symbol, quantity, price)
          \/ \E portfolioId \in PortfolioIds, currentPrices \in PriceMaps :
                 getPortfolioValue(portfolioId, currentPrices)
          \/ \E portfolioId \in PortfolioIds, currentPrices \in PriceMaps :
                 calculatePortfolioValue(portfolioId, currentPrices)
          \/ \E portfolioId \in PortfolioIds, currentPrices \in PriceMaps :
                 getTotalPnL(portfolioId, currentPrices)
    \/ /\ portfolios = <<>> /\ activePortfolioId = NullId
       /\ \/ \E portfolioId \in StorePortfolioIds, symbol \in Symbols, side \in OrderSides,
                quantity \in Quantities, price \in Prices :
                 positionExecuteTrade(portfolioId, symbol, side, quantity, price)
          \/ \E portfolioId \in StatsPortfolioIds, currentPrices \in PriceMaps :
                 getPortfolioStats(portfolioId, currentPrices)

SpecValuation == Init /\ [][NextValuation]_vars

(***************************************************************************)
(* Analytics (src/src/utils/portfolioAnalytics.ts): pure functions of a    *)
(* Portfolio, which the components call with the active portfolio.         *)
(***************************************************************************)
NoPortfolio == [found |-> FALSE]

\* The portfolio the components hand to the analytics: the active one, if any.
ActivePortfolio(ps, active) ==
    IF PortfolioIndex(ps, active) = 0 THEN NoPortfolio
    ELSE Merge(ps[PortfolioIndex(ps, active)], [found |-> TRUE])

\* transactions.filter(t => t.type === 'buy' && t.symbol === sellTx.symbol &&
\*                          t.timestamp < sellTx.timestamp)
BuysBefore(txs, sellTx) ==
    SelectSeq(txs, LAMBDA t : /\ t.type = "buy"
                              /\ t.symbol = sellTx.symbol
                              /\ t.timestamp < sellTx.timestamp)

\* .sort((a, b) => a.timestamp - b.timestamp): the sort is stable
RECURSIVE SortByTimestamp(_)
SortByTimestamp(txs) ==
    IF txs = <<>> THEN <<>>
    ELSE LET last == txs[Len(txs)]
             sorted == SortByTimestamp(SubSeq(txs, 1, Len(txs) - 1))
             k == Cardinality({i \in 1..Len(sorted) : sorted[i].timestamp <= last.timestamp})
         IN SubSeq(sorted, 1, k) \o <<last>> \o SubSeq(sorted, k + 1, Len(sorted))

\* The loop over buyTransactions of calculateTradingStatistics: totalCost at its end.
RECURSIVE FifoCost(_, _, _)
FifoCost(buyTransactions, remainingQuantity, totalCost) ==
    IF buyTransactions = <<>> THEN totalCost
    ELSE LET buyTx == Head(buyTransactions)
             usedQuantity == IF remainingQuantity < buyTx.quantity
                             THEN remainingQuantity ELSE buyTx.quantity
         IN IF remainingQuantity - usedQuantity <= 0
            THEN totalCost + usedQuantity * buyTx.price
            ELSE FifoCost(Tail(buyTransactions), remainingQuantity - usedQuantity,
                          totalCost + usedQuantity * buyTx.price)

\* tradeResults after the loop over the first n sell transactions.
RECURSIVE TradeResults(_, _)
TradeResults(txs, n) ==
    LET sellTransactions == SelectSeq(txs, LAMBDA t : t.type = "sell")
    IN IF n = 0 THEN <<>>
       ELSE LET sellTx == sellTransactions[n]
                buyTransactions == SortByTimestamp(BuysBefore(txs, sellTx))
                pnl == sellTx.quantity * sellTx.price
                           - FifoCost(buyTransactions, sellTx.quantity, 0)
            IN IF Len(buyTransactions) > 0
               THEN Append(TradeResults(txs, n - 1), pnl)
               ELSE TradeResults(txs, n - 1)

RECURSIVE SumSeq(_)
SumSeq(xs) == IF xs = <<>> THEN 0 ELSE Head(xs) + SumSeq(Tail(xs))

\* Math.max(...xs) and Math.min(...xs) of a non-empty array
MaxOf(xs) == CHOOSE x \in {xs[i] : i \in 1..Len(xs)} : \A i \in 1..Len(xs) : xs[i] <= x
MinOf(xs) == CHOOSE x \in {xs[i] : i \in 1..Len(xs)} : \A i \in 1..Len(xs) : xs[i] >= x

RECURSIVE Volume(_)
Volume(txs) ==
    IF txs = <<>> THEN 0 ELSE Head(txs).price * Head(txs).quantity + Volume(Tail(txs))

NoStatistics ==
    [totalTrades |-> 0, winRate |-> Num(0), winningTrades |-> 0, losingTrades |-> 0,
     bestTrade |-> 0, worstTrade |-> 0, averageWin |-> Num(0), averageLoss |-> Num(0),
     profitFactor |-> Num(0), totalVolume |-> 0]

\* The statistics calculateTradingStatistics derives from tradeResults.
StatisticsOf(tradeResults, txs) ==
    LET winningTrades == SelectSeq(tradeResults, LAMBDA pnl : pnl > 0)
        losingTrades == SelectSeq(tradeResults, LAMBDA pnl : pnl < 0)
        averageWin == IF Len(winningTrades) > 0
                      THEN Norm(SumSeq(winningTrades), Len(winningTrades)) ELSE Num(0)
        averageLoss == IF Len(losingTrades) > 0
                       THEN Norm(Abs(SumSeq(losingTrades)), Len(losingTrades)) ELSE Num(0)
    IN [totalTrades |-> Len(tradeResults),
        winRate |-> IF Len(tradeResults) > 0
                    THEN Norm(Len(winningTrades) * 100, Len(tradeResults)) ELSE Num(0),
        winningTrades |-> Len(winningTrades),
        losingTrades |-> Len(losingTrades),
        bestTrade |-> IF Len(tradeResults) > 0 THEN MaxOf(tradeResults) ELSE 0,
        worstTrade |-> IF Len(tradeResults) > 0 THEN MinOf(tradeResults) ELSE 0,
        averageWin |-> averageWin,
        averageLoss |-> averageLoss,
        profitFactor |-> IF Greater(averageLoss, Num(0))
                         THEN Div(averageWin, averageLoss) ELSE Num(0),
        totalVolume |-> Volume(txs)]

\* calculateTradingStatistics(portfolio)
TradingStatistics(portfolio) ==
    IF ~portfolio.found THEN NoStatistics
    ELSE IF Len(portfolio.transactions) = 0 THEN NoStatistics
    ELSE StatisticsOf(TradeResults(portfolio.transactions,
                                   Len(SelectSeq(portfolio.transactions,
                                                 LAMBDA t : t.type = "sell"))),
                      portfolio.transactions)

\* !x of a number: 0 and NaN are falsy
Falsy(r) == r.num = 0

\* The loop over portfolio.positions of calculatePortfolioPerformance.
RECURSIVE PerformanceLoop(_, _, _)
PerformanceLoop(acc, pos, currentPrices) ==
    IF pos = <<>> THEN acc
    ELSE LET position == Head(pos)
             currentPrice == PriceOr(currentPrices, position.symbol,
                                     IF Falsy(position.entryPrice) THEN Num(0)
                                     ELSE position.entryPrice)
             positionValue == MulInt(currentPrice, position.quantity)
             positionCost == MulInt(position.entryPrice, position.quantity)
             positionPnL == Add(positionValue, Neg(positionCost))
         IN IF position.quantity = 0 \/ Falsy(position.entryPrice)
            THEN PerformanceLoop(acc, Tail(pos), currentPrices)
            ELSE PerformanceLoop([totalValue |-> Add(acc.totalValue, positionValue),
                                  totalInvested |-> Add(acc.totalInvested, positionCost),
                                  totalPnL |-> Add(acc.totalPnL, positionPnL)],
                                 Tail(pos), currentPrices)

\* The reduce over the first n sell transactions of calculatePortfolioPerformance.
RECURSIVE RealizedPnL(_, _)
RealizedPnL(txs, n) ==
    LET sellTransactions == SelectSeq(txs, LAMBDA t : t.type = "sell")
    IN IF n = 0 THEN Num(0)
       ELSE LET transaction == sellTransactions[n]
                buyTransactions == BuysBefore(txs, transaction)
                sum == RealizedPnL(txs, n - 1)
                avgBuyPrice == DivInt(Num(Volume(buyTransactions)),
                                      SumSeq([i \in 1..Len(buyTransactions) |->
                                                 buyTransactions[i].quantity]))
            IN IF Len(buyTransactions) > 0
               THEN Add(sum, MulInt(AddInt(Neg(avgBuyPrice), transaction.price),
                                    transaction.quantity))
               ELSE sum

\* calculatePortfolioPerformance(portfolio, currentPrices)
PortfolioPerformance(portfolio, currentPrices) ==
    IF ~portfolio.found
    THEN [totalValue |-> Num(0), totalPnL |-> Num(0), totalPnLPercentage |-> Num(0),
          dayPnL |-> Num(0), dayPnLPercentage |-> Num(0), totalInvested |-> Num(0),
          availableCash |-> 0]
    ELSE LET acc == PerformanceLoop([totalValue |-> Num(portfolio.balance),
                                     totalInvested |-> Num(0), totalPnL |-> Num(0)],
                                    portfolio.positions, currentPrices)
             realizedPnL == RealizedPnL(portfolio.transactions,
                                        Len(SelectSeq(portfolio.transactions,
                                                      LAMBDA t : t.type = "sell")))
             totalPnLWithRealized == Add(acc.totalPnL, realizedPnL)
             dayPnL == DivInt(acc.totalPnL, 10)
         IN [totalValue |-> acc.totalValue,
             totalPnL |-> totalPnLWithRealized,
             totalPnLPercentage |->
                 IF Greater(acc.totalInvested, Num(0))
                 THEN MulInt(Div(totalPnLWithRealized, acc.totalInvested), 100)
                 ELSE Num(0),
             dayPnL |-> dayPnL,
             dayPnLPercentage |->
                 IF Greater(acc.totalValue, Num(0))
                 THEN MulInt(Div(dayPnL, acc.totalValue), 100)
                 ELSE Num(0),
             totalInvested |-> acc.totalInvested,
             availableCash |-> portfolio.balance]

calculateTradingStatistics ==
    /\ lastCall' = [op |-> "calculateTradingStatistics",
                    result |-> TradingStatistics(ActivePortfolio(portfolios,
                                                                 activePortfolioId))]
    /\ UNCHANGED <<now, serviceVars, portfolioVars, idCounter, positionVars, storageVars>>

calculatePortfolioPerformance(currentPrices) ==
    /\ lastCall' = [op |-> "calculatePortfolioPerformance",
                    currentPrices |-> currentPrices,
                    result |-> PortfolioPerformance(ActivePortfolio(portfolios,
                                                                    activePortfolioId),
                                                    currentPrices)]
    /\ UNCHANGED <<now, serviceVars, portfolioVars, idCounter, positionVars, storageVars>>

\* Time passes: Date.now() returns a later value from now on.  Only the order of the
\* timestamps is read, so the clock advances by one, and only past a time that some
\* transaction bears.
tick ==
    /\ now < MaxClock
    /\ \E i \in 1..Len(portfolios) : \E k \in 1..Len(portfolios[i].transactions) :
           portfolios[i].transactions[k].timestamp = now
    /\ now' = now + 1
    /\ UNCHANGED <<portfolioVars, idCounter, lastCall, positionVars, storageVars, serviceVars>>

\* The price maps the analytics are called with: a price for some of the traded symbols.
AnalyticsPriceMaps == UNION {[S -> MapPrices] : S \in SUBSET AnalyticsSymbols}

\* One portfolio, trades at times that may or may not differ, and the analytics.
NextAnalytics ==
    \/ \E name \in Names : portfolios = <<>> /\ createPortfolio(name)
    \/ \E type \in TradeTypes, symbol \in AnalyticsSymbols,
          quantity \in Quantities, price \in Prices :
           executeTradeWithin(MaxAnalyticsIds, type, symbol, quantity, price)
    \/ tick
    \/ calculateTradingStatistics
    \/ \E currentPrices \in AnalyticsPriceMaps : calculatePortfolioPerformance(currentPrices)

SpecAnalytics == Init /\ [][NextAnalytics]_vars

(***************************************************************************)
(* TradingStorage and the storage-backed trade of useOptimizedPositions.   *)
(*                                                                         *)
(* Every call of a TradingStorage method is one IndexedDB transaction, and *)
(* transactions on an object store take effect in the order in which they  *)
(* are requested: a step of the model is the code that runs between two    *)
(* awaits, together with the storage request it ends with.  An object      *)
(* store is the set of its records, which have distinct keys (id).         *)
(***************************************************************************)
\* db.put(store, record): the record replaces the one with its key
Put(records, record) == {r \in records : r.id # record.id} \cup {record}

RECURSIVE PutAll(_, _)
\* data.map(r => store.put(r)): the puts of importData, one record at a time
PutAll(records, data) ==
    IF data = {} THEN records
    ELSE LET r == CHOOSE x \in data : \A y \in data : x.id <= y.id
         IN PutAll(Put(records, r), data \ {r})

\* db.get('portfolios', id): the set holding the record, empty for undefined
GetPortfolio(st, id) == {p \in st.portfolios : p.id = id}

\* db.getAllFromIndex('positions', 'by-portfolio', portfolioId)
GetPositionsByPortfolio(st, portfolioId) == {p \in st.positions : p.portfolioId = portfolioId}

\* existingPositions.find(p => p.symbol === trade.symbol): the set holding the first
\* such position in key order, empty for undefined
FindBySymbol(existingPositions, symbol) ==
    {p \in existingPositions :
        /\ p.symbol = symbol
        /\ \A q \in existingPositions : q.symbol = symbol => p.id <= q.id}

\* The Portfolio object createPortfolioMutation hands to savePortfolio.
StoredPortfolio(portfolioId, name) ==
    [id |-> portfolioId,
     name |-> name,
     balance |-> 100000,
     currentBalance |-> 100000,
     initialBalance |-> 100000,
     positions |-> <<>>,
     transactions |-> <<>>]

\* The Transaction object of the buy branch.
StoredTransaction(txId, trade, portfolioId) ==
    [id |-> txId,
     symbol |-> trade.symbol,
     type |-> "buy",
     quantity |-> trade.quantity,
     price |-> trade.price,
     portfolioId |-> portfolioId]

\* The position the buy branch saves: the existing one updated, or a new one.
PositionToSave(existing, trade, portfolioId, positionId) ==
    IF existing # {}
    THEN LET existingPosition == CHOOSE p \in existing : TRUE
         IN [existingPosition EXCEPT
                !.quantity = existingPosition.quantity + trade.quantity,
                !.entryPrice =
                    DivInt(AddInt(MulInt(existingPosition.entryPrice,
                                         existingPosition.quantity),
                                  trade.quantity * trade.price),
                           existingPosition.quantity + trade.quantity),
                !.portfolioId = portfolioId]
    ELSE [id |-> positionId,
          symbol |-> trade.symbol,
          quantity |-> trade.quantity,
          entryPrice |-> Num(trade.price),
          type |-> "long",
          portfolioId |-> portfolioId]

\* updatedPortfolio: the portfolio as read at the start of the trade, debited
UpdatedPortfolio(portfolio, trade, transaction) ==
    [portfolio EXCEPT
        !.balance = portfolio.balance - trade.quantity * trade.price,
        !.currentBalance = portfolio.balance - trade.quantity * trade.price,
        !.transactions = Append(portfolio.transactions, transaction)]

\* The error the trade throws once the portfolio has been read, "" for none.
TradeError(found, trade) ==
    IF found = {} THEN "Portfolio not found"
    ELSE IF trade.type = "buy"
         THEN IF (CHOOSE p \in found : TRUE).balance < trade.quantity * trade.price
              THEN "Insufficient funds"
              ELSE ""
         ELSE "Sell functionality not implemented yet"

\* TradingStorage.savePortfolio of a new portfolio (createPortfolioMutation).
savePortfolio(name) ==
    /\ idCounter < MaxIds
    /\ storage' = [storage EXCEPT
                       !.portfolios = Put(@, StoredPortfolio(idCounter + 1, name))]
    /\ idCounter' = idCounter + 1
    /\ lastCall' = [op |-> "savePortfolio", result |-> idCounter + 1]
    /\ UNCHANGED <<now, serviceVars, portfolioVars, positionVars, calls, backup>>

\* TradingStorage.setActivePortfolioId
setActivePortfolioId(id) ==
    /\ storage' = [storage EXCEPT !.activePortfolioId = id]
    /\ lastCall' = [op |-> "setActivePortfolioId", id |-> id]
    /\ UNCHANGED <<now, serviceVars, portfolioVars, positionVars, idCounter, calls, backup>>

\* mutationFn up to its first await: the portfolioId check and getPortfolio.  Callers
\* are interchangeable: they are numbered in the order of their calls.
executeTradeMutation(c, portfolioId, trade) ==
    /\ calls[c].pc = "idle"
    /\ \A d \in CallIds : d < c => calls[d].pc # "idle"
    /\ calls' = [calls EXCEPT ![c] =
                     IF portfolioId = NullId
                     THEN [pc |-> "done", portfolioId |-> portfolioId, trade |-> trade,
                           before |-> storage, error |-> "No active portfolio"]
                     ELSE [pc |-> "getPortfolio", portfolioId |-> portfolioId,
                           trade |-> trade, before |-> storage,
                           portfolio |-> GetPortfolio(storage, portfolioId)]]
    /\ lastCall' = [op |-> "executeTradeMutation"]
    /\ UNCHANGED <<now, serviceVars, portfolioVars, positionVars, idCounter, storage, backup>>

\* From the portfolio to the second await: the checks, the transaction object and
\* getPositionsByPortfolio.
afterGetPortfolio(c) ==
    LET call == calls[c]
        error == TradeError(call.portfolio, call.trade)
    IN /\ call.pc = "getPortfolio"
       /\ IF error # ""
          THEN /\ calls' = [calls EXCEPT ![c] =
                               [pc |-> "done", portfolioId |-> call.portfolioId,
                                trade |-> call.trade, before |-> call.before,
                                error |-> error]]
               /\ idCounter' = idCounter
          ELSE /\ idCounter < MaxIds
               /\ calls' = [calls EXCEPT ![c] =
                               [pc |-> "getPositionsByPortfolio",
                                portfolioId |-> call.portfolioId,
                                trade |-> call.trade, before |-> call.before,
                                portfolio |-> CHOOSE p \in call.portfolio : TRUE,
                                transaction |-> StoredTransaction(idCounter + 1, call.trade,
                                                                  call.portfolioId),
                                existingPositions |->
                                    GetPositionsByPortfolio(storage, call.portfolioId)]]
               /\ idCounter' = idCounter + 1
       /\ lastCall' = [op |-> "afterGetPortfolio"]
       /\ UNCHANGED <<now, serviceVars, portfolioVars, positionVars, storage, backup>>

\* From the positions to the third await: savePosition, which succeeds or throws.
afterGetPositions(c, saved) ==
    LET call == calls[c]
        existing == FindBySymbol(call.existingPositions, call.trade.symbol)
        position == PositionToSave(existing, call.trade, call.portfolioId, idCounter + 1)
    IN /\ call.pc = "getPositionsByPortfolio"
       /\ (existing = {}) => idCounter < MaxIds
       /\ idCounter' = IF existing = {} THEN idCounter + 1 ELSE idCounter
       /\ storage' = IF saved THEN [storage EXCEPT !.positions = Put(@, position)]
                     ELSE storage
       /\ calls' = [calls EXCEPT ![c] =
                       IF saved
                       THEN [pc |-> "savePosition", portfolioId |-> call.portfolioId,
                             trade |-> call.trade, before |-> call.before,
                             portfolio |-> call.portfolio,
                             transaction |-> call.transaction,
                             position |-> position]
                       ELSE [pc |-> "done", portfolioId |-> call.portfolioId,
                             trade |-> call.trade, before |-> call.before,
                             error |-> "savePosition failed"]]
       /\ lastCall' = [op |-> "afterGetPositions"]
       /\ UNCHANGED <<now, serviceVars, portfolioVars, positionVars, backup>>

\* From savePosition to the return: Promise.all of savePortfolio and saveTransaction,
\* each of which succeeds or throws.
afterSavePosition(c, savedPortfolio, savedTransaction) ==
    LET call == calls[c]
        updatedPortfolio == UpdatedPortfolio(call.portfolio, call.trade, call.transaction)
    IN /\ call.pc = "savePosition"
       /\ storage' = [storage EXCEPT
                          !.portfolios = IF savedPortfolio THEN Put(@, updatedPortfolio)
                                         ELSE @,
                          !.transactions = IF savedTransaction
                                           THEN Put(@, call.transaction)
                                           ELSE @]
       /\ calls' = [calls EXCEPT ![c] =
                       [pc |-> "done", portfolioId |-> call.portfolioId,
                        trade |-> call.trade, before |-> call.before,
                        error |-> IF ~savedPortfolio THEN "savePortfolio failed"
                                  ELSE IF ~savedTransaction THEN "saveTransaction failed"
                                  ELSE "",
                        transaction |-> call.transaction,
                        position |-> call.position]]
       /\ lastCall' = [op |-> "afterSavePosition"]
       /\ UNCHANGED <<now, serviceVars, portfolioVars, positionVars, idCounter, backup>>

\* The whole trade run with no other storage request in between and no failing
\* request: the storage it leaves and the error it throws ("" for none).
TradeAlone(st, portfolioId, trade, txId, positionId) ==
    LET found == GetPortfolio(st, portfolioId)
        error == IF portfolioId = NullId THEN "No active portfolio"
                 ELSE TradeError(found, trade)
        transaction == StoredTransaction(txId, trade, portfolioId)
        existing == FindBySymbol(GetPositionsByPortfolio(st, portfolioId), trade.symbol)
    IN IF error # "" THEN [storage |-> st, error |-> error]
       ELSE [storage |->
                 [st EXCEPT
                     !.positions = Put(@, PositionToSave(existing, trade, portfolioId,
                                                         positionId)),
                     !.portfolios = Put(@, UpdatedPortfolio(CHOOSE p \in found : TRUE,
                                                            trade, transaction)),
                     !.transactions = Put(@, transaction)],
             error |-> ""]

\* The portfolio ids a caller can pass: those of the storage, one that no portfolio
\* has or will have, and null.
StoredPortfolioIds == {p.id : p \in storage.portfolios} \cup {NoSuchId, NullId}

\* The trades a caller can pass: two of them can cost more than one portfolio holds.
Trades ==
    [symbol : Symbols, type : TradeTypes, quantity : StoredQuantities, price : Prices]

\* No trade is between its call and its return.
NoCallInFlight == \A c \in CallIds : calls[c].pc \in {"idle", "done"}

\* Concurrent trades whose storage requests can fail.  A portfolio is created while no
\* trade is in flight: its put touches no record that a trade reads or writes.
NextStorage ==
    \/ \E name \in Names : NoCallInFlight /\ savePortfolio(name)
    \/ \E c \in CallIds, portfolioId \in StoredPortfolioIds, trade \in Trades :
           executeTradeMutation(c, portfolioId, trade)
    \/ \E c \in CallIds : afterGetPortfolio(c)
    \/ \E c \in CallIds, saved \in BOOLEAN : afterGetPositions(c, saved)
    \/ \E c \in CallIds, savedPortfolio \in BOOLEAN, savedTransaction \in BOOLEAN :
           afterSavePosition(c, savedPortfolio, savedTransaction)

SpecStorage == Init /\ [][NextStorage]_vars

\* TradingStorage.exportData: the three getAll requests are made together, and the
\* snapshot holds the stores as they are then.  from records the storage of that moment.
exportData ==
    /\ backup' = [taken |-> TRUE,
                  portfolios |-> storage.portfolios,
                  positions |-> storage.positions,
                  transactions |-> storage.transactions,
                  settings |-> [activePortfolioId |-> storage.activePortfolioId],
                  from |-> storage]
    /\ lastCall' = [op |-> "exportData"]
    /\ UNCHANGED <<now, serviceVars, portfolioVars, positionVars, idCounter, storage, calls>>

\* Faulty variant: the three stores are not cleared before the puts.
importData_Merges(data) ==
    /\ storage' =
           [portfolios |-> PutAll(storage.portfolios, data.portfolios),
            positions |-> PutAll(storage.positions, data.positions),
            transactions |-> PutAll(storage.transactions, data.transactions),
            activePortfolioId |->
                IF data.settings.activePortfolioId # NullId
                THEN data.settings.activePortfolioId
                ELSE storage.activePortfolioId]
    /\ lastCall' = [op |-> "importData",
                    overwrites |-> <<storage.portfolios, storage.positions,
                                     storage.transactions>>
                                   # <<data.portfolios, data.positions, data.transactions>>]
    /\ UNCHANGED <<now, serviceVars, portfolioVars, positionVars, idCounter, calls, backup>>

\* TradingStorage.importData: clear the three stores, put every record of the data,
\* and set the activePortfolioId setting when the data has one.  overwrites records
\* whether the stores held anything else than the data.
importData(data) ==
    /\ storage' =
           [portfolios |-> PutAll({}, data.portfolios),
            positions |-> PutAll({}, data.positions),
            transactions |-> PutAll({}, data.transactions),
            activePortfolioId |->
                IF data.settings.activePortfolioId # NullId
                THEN data.settings.activePortfolioId
                ELSE storage.activePortfolioId]
    /\ lastCall' = [op |-> "importData",
                    overwrites |-> <<storage.portfolios, storage.positions,
                                     storage.transactions>>
                                   # <<data.portfolios, data.positions, data.transactions>>]
    /\ UNCHANGED <<now, serviceVars, portfolioVars, positionVars, idCounter, calls, backup>>

\* The ids setActivePortfolioId is called with: a stored portfolio's, or null.
ActiveIdChoices == {p.id : p \in storage.portfolios} \cup {NullId}

\* Backup and restore around the trade of one caller, whose requests succeed.  The
\* active portfolio is chosen before the first backup; a backup is taken and restored
\* while no trade is in flight.
NextBackup ==
    \/ /\ NoCallInFlight
       /\ \/ \E name \in Names : savePortfolio(name)
          \/ \E id \in ActiveIdChoices : ~backup.taken /\ setActivePortfolioId(id)
          \/ \E portfolioId \in StoredPortfolioIds, trade \in Trades :
                 executeTradeMutation(1, portfolioId, trade)
          \/ exportData
          \/ backup.taken /\ importData(backup)
    \/ afterGetPortfolio(1)
    \/ afterGetPositions(1, TRUE)
    \/ afterSavePosition(1, TRUE, TRUE)

SpecBackup == Init /\ [][NextBackup]_vars

(***************************************************************************)
(* PortfolioCalculationsWorker (src/unnamed/part_020) and the Worker it    *)
(* talks to (src/unnamed/part_003).  Messages between the two are          *)
(* delivered in order, one per step.  A message is the record of the       *)
(* fields it has.  A Promise is pending, resolved with a result, or        *)
(* rejected with an error; promises[messageId] is the Promise that the     *)
(* call with that messageId returned.                                      *)
(***************************************************************************)
\* What the calculation functions return for a request (they are not modelled further).
ResultOf(type, data) == [computed |-> type, from |-> data]

\* calculate(request): the Promise's executor.
calculate(request) ==
    LET messageId == worker.messageId + 1
    IN /\ worker.messageId < MaxRequests
       /\ worker' = [worker EXCEPT
              !.messageId = messageId,
              !.pendingRequests = @ \cup {messageId},
              !.inbox = Append(@, Merge(request, [messageId |-> messageId])),
              !.promises = Append(@, [state |-> "pending"])]
       /\ lastCall' = [op |-> "calculate", request |-> request, result |-> messageId]
       /\ UNCHANGED <<now, feed, idCounter, portfolioVars, positionVars, storageVars>>

\* The response self.onmessage posts for the message e.data; only type and data of the
\* message are read.  A calculation function throws when data holds no portfolio.
WorkerResponse(message) ==
    IF message.type \in CalculationTypes /\ message.data # "none"
    THEN [type |-> message.type, result |-> ResultOf(message.type, message.data)]
    ELSE [type |-> message.type, result |-> "null", error |-> "Error"]

\* self.onmessage of the Worker, on the oldest message posted to it.
workerOnMessage ==
    /\ worker.inbox # <<>>
    /\ worker' = [worker EXCEPT
           !.inbox = Tail(@),
           !.outbox = Append(@, WorkerResponse(Head(worker.inbox)))]
    /\ lastCall' = [op |-> "worker.onmessage", request |-> Head(worker.inbox)]
    /\ UNCHANGED <<now, feed, idCounter, portfolioVars, positionVars, storageVars>>

\* const { messageId } = e.data: NullId stands for undefined, which is no key of the Map.
MessageIdOf(message) ==
    IF "messageId" \in DOMAIN message THEN message.messageId ELSE NullId

\* this.worker.onmessage of the client, on the oldest response posted by the Worker.
clientOnMessage ==
    LET response == Head(worker.outbox)
        messageId == MessageIdOf(response)
    IN /\ worker.outbox # <<>>
       /\ worker' =
              IF messageId \in worker.pendingRequests
              THEN [worker EXCEPT
                       !.outbox = Tail(@),
                       !.pendingRequests = @ \ {messageId},
                       !.promises[messageId] =
                           IF "error" \in DOMAIN response
                           THEN [state |-> "rejected", error |-> response.error]
                           ELSE [state |-> "resolved", result |-> response.result]]
              ELSE [worker EXCEPT !.outbox = Tail(@)]
       /\ lastCall' = [op |-> "client.onmessage", response |-> response]
       /\ UNCHANGED <<now, feed, idCounter, portfolioVars, positionVars, storageVars>>

\* The 10 s timer of the call with this messageId fires (each timer fires once; a timer
\* whose request is no longer pending does nothing).
calculationTimeout(messageId) ==
    /\ messageId \in worker.pendingRequests
    /\ worker' = [worker EXCEPT
           !.pendingRequests = @ \ {messageId},
           !.promises[messageId] = [state |-> "rejected", error |-> "Calculation timeout"]]
    /\ lastCall' = [op |-> "calculationTimeout", messageId |-> messageId]
    /\ UNCHANGED <<now, feed, idCounter, portfolioVars, positionVars, storageVars>>

\* The requests the hooks make: a calculation type, and data with or without a portfolio.
Requests == [type : CalculationTypes, data : RequestData]

NextWorker ==
    \/ \E request \in Requests : calculate(request)
    \/ workerOnMessage
    \/ clientOnMessage
    \/ \E messageId \in 1..MaxRequests : calculationTimeout(messageId)

SpecWorker == Init /\ [][NextWorker]_vars

(***************************************************************************)
(* HyperliquidWebSocketClient (hyperliquidWebSocket.ts).                   *)
(*                                                                         *)
(* feed.sockets holds the state of every WebSocket the client has created, *)
(* in the order of creation; feed.ws is the index of the one this.ws       *)
(* refers to (NullId for null).  The handlers of a socket stay attached    *)
(* when this.ws is set to null or to another socket.  feed.timers counts   *)
(* the reconnect timers scheduled and not yet fired.  feed.stopped is      *)
(* history, not a field of the client: the caller's last call was          *)
(* disconnect().                                                           *)
(***************************************************************************)
maxReconnectAttempts == 5

\* The body of connect(): nothing when connected, else this.ws = new WebSocket(url).
Connected(f) ==
    IF f.isConnected
    THEN f
    ELSE [f EXCEPT !.sockets = Append(@, "connecting"), !.ws = Len(f.sockets) + 1]

\* connect(), called by the owner of the client
connect ==
    /\ Len(Connected(feed).sockets) <= MaxSockets
    /\ feed' = [Connected(feed) EXCEPT !.stopped = FALSE]
    /\ lastCall' = [op |-> "connect"]
    /\ UNCHANGED <<now, worker, idCounter, portfolioVars, positionVars, storageVars>>

\* ws.onopen of socket s
onopen(s) ==
    /\ feed.sockets[s] = "connecting"
    /\ feed' = [feed EXCEPT !.sockets[s] = "open", !.isConnected = TRUE,
                            !.reconnectAttempts = 0]
    /\ lastCall' = [op |-> "onopen", socket |-> s]
    /\ UNCHANGED <<now, worker, idCounter, portfolioVars, positionVars, storageVars>>

\* The close events socket s can deliver: a connection that was never established
\* closes uncleanly; an established one closes cleanly or not (the network decides).
WasClean(s) ==
    IF feed.sockets[s] \in {"connecting", "failing"} THEN {FALSE} ELSE BOOLEAN

\* ws.onclose of socket s, with event.wasClean
onclose(s, wasClean) ==
    /\ feed.sockets[s] # "closed"
    /\ wasClean \in WasClean(s)
    /\ feed' = [feed EXCEPT
           !.sockets[s] = "closed",
           !.isConnected = FALSE,
           !.timers = IF ~wasClean /\ feed.reconnectAttempts < maxReconnectAttempts
                      THEN @ + 1
                      ELSE @]
    /\ lastCall' = [op |-> "onclose", socket |-> s, wasClean |-> wasClean]
    /\ UNCHANGED <<now, worker, idCounter, portfolioVars, positionVars, storageVars>>

\* The callback of a timer set by scheduleReconnect()
reconnect ==
    LET counted == [feed EXCEPT !.timers = @ - 1, !.reconnectAttempts = @ + 1]
    IN /\ feed.timers > 0
       /\ Len(Connected(counted).sockets) <= MaxSockets
       /\ feed' = Connected(counted)
       /\ lastCall' = [op |-> "reconnect"]
       /\ UNCHANGED <<now, worker, idCounter, portfolioVars, positionVars, storageVars>>

\* ws.close(1000, 'Client disconnect') on socket s
Closing(state) ==
    CASE state = "connecting" -> "failing"
      [] state = "open" -> "closing"
      [] OTHER -> state

\* disconnect(), called by the owner of the client
disconnect ==
    /\ feed' = [feed EXCEPT
           !.sockets = IF feed.ws # NullId
                       THEN [@ EXCEPT ![feed.ws] = Closing(@)]
                       ELSE @,
           !.ws = NullId,
           !.isConnected = FALSE,
           !.stopped = TRUE]
    /\ lastCall' = [op |-> "disconnect"]
    /\ UNCHANGED <<now, worker, idCounter, portfolioVars, positionVars, storageVars>>

NextFeed ==
    \/ connect
    \/ \E s \in 1..Len(feed.sockets) : onopen(s)
    \/ \E s \in 1..Len(feed.sockets), wasClean \in BOOLEAN : onclose(s, wasClean)
    \/ reconnect
    \/ disconnect

SpecFeed == Init /\ [][NextFeed]_vars

(***************************************************************************)
(* Properties of usePortfolioStore.                                        *)
(***************************************************************************)
\* getActivePortfolio(), defined when ActiveIndex # 0
ActiveIndex == PortfolioIndex(portfolios, activePortfolioId)
Active == portfolios[ActiveIndex]
ActiveAfter == portfolios'[ActiveIndex]

\* The step is a call of executeTrade / of closePosition.
IsTradeCall == lastCall'.op = "executeTrade"
IsCloseCall == lastCall'.op = "closePosition"

\* The balance, positions and transactions of every portfolio are as before the call.
LedgerUnchanged == portfolios' = portfolios

\* The positions of pos for a symbol.
PositionsOf(pos, symbol) == {k \in 1..Len(pos) : pos[k].symbol = symbol}

\* The active portfolio's first position for a symbol; HeldIndex is 0 when it has none.
HeldIndex(symbol) ==
    LET held == PositionsOf(Active.positions, symbol)
    IN IF held = {} THEN 0 ELSE CHOOSE k \in held : \A m \in held : k <= m
Held(symbol) == Active.positions[HeldIndex(symbol)]

RECURSIVE CostBasis(_)
\* the sum of quantity * entryPrice over the positions pos
CostBasis(pos) ==
    IF pos = <<>> THEN Num(0)
    ELSE Add(MulInt(Head(pos).entryPrice, Head(pos).quantity), CostBasis(Tail(pos)))

\* C1: a buy with quantity > 0 and price > 0 whose quantity * price exceeds the
\* active portfolio's balance returns false and leaves the balance, positions and
\* transactions as they were.
C1_InsufficientFundsRejected ==
    [][(/\ IsTradeCall
        /\ lastCall'.type = "buy"
        /\ lastCall'.quantity > 0 /\ lastCall'.price > 0
        /\ ActiveIndex # 0
        /\ lastCall'.quantity * lastCall'.price > Active.balance)
       => (lastCall'.result = FALSE /\ LedgerUnchanged)]_vars

\* A buy costing more than the balance of a portfolio that already holds a position
\* has been rejected.
C1_Witness ==
    /\ lastCall.op = "executeTrade"
    /\ lastCall.type = "buy"
    /\ lastCall.result = FALSE
    /\ ActiveIndex # 0
    /\ lastCall.quantity * lastCall.price > Active.balance
    /\ Len(Active.positions) > 0

\* C2: conservation: in every portfolio, balance plus the sum of quantity * entryPrice
\* over the open positions equals initialBalance plus the realized P&L of the sells
\* executed on it, quantity * (price - entryPrice at the moment of the sell).
C2_Conservation ==
    \A i \in 1..Len(portfolios) :
        Add(Num(portfolios[i].balance), CostBasis(portfolios[i].positions))
            = Add(Num(portfolios[i].initialBalance), realized[portfolios[i].id])

\* A portfolio that has realized a loss or gain and still holds a position whose
\* average entry price is not an integer.
C2_Witness ==
    \E i \in 1..Len(portfolios) :
        /\ realized[portfolios[i].id] # Num(0)
        /\ \E k \in 1..Len(portfolios[i].positions) :
               portfolios[i].positions[k].entryPrice.den > 1

\* The call executeTrade receives: the caller's, or the one closePosition builds.
CallTrade ==
    IF IsTradeCall
    THEN [found |-> TRUE, symbol |-> lastCall'.symbol, type |-> lastCall'.type,
          quantity |-> lastCall'.quantity, price |-> lastCall'.price]
    ELSE CloseTrade(portfolios, activePortfolioId, lastCall'.positionId, lastCall'.price)

\* entryPrice is the volume-weighted average of an old position and a fill.
IsWeightedAverage(entryPrice, oldQuantity, oldEntryPrice, quantity, price) ==
    MulInt(entryPrice, oldQuantity + quantity)
        = AddInt(MulInt(oldEntryPrice, oldQuantity), quantity * price)

\* C3 in usePortfolioStore: an executed buy into an existing position leaves one
\* position for the symbol, with the summed quantity and the weighted average price.
MergeInPortfolioStore ==
    (/\ IsTradeCall
     /\ lastCall'.type = "buy"
     /\ lastCall'.result
     /\ ActiveIndex # 0
     /\ HeldIndex(lastCall'.symbol) # 0)
    => LET old == Held(lastCall'.symbol)
           after == ActiveAfter.positions
       IN /\ Cardinality(PositionsOf(after, lastCall'.symbol)) = 1
          /\ \A k \in PositionsOf(after, lastCall'.symbol) :
                 /\ after[k].quantity = old.quantity + lastCall'.quantity
                 /\ IsFinite(after[k].entryPrice)
                 /\ IsWeightedAverage(after[k].entryPrice, old.quantity, old.entryPrice,
                                      lastCall'.quantity, lastCall'.price)

\* C3 in usePositionStore: a trade on the side of the existing position of the
\* portfolio and symbol leaves one position for them, merged in the same way.
MergeInPositionStore ==
    LET e == ExistingPositionIndex(positions, lastCall'.portfolioId, lastCall'.symbol)
        mine == {k \in 1..Len(positions') :
                    /\ positions'[k].portfolioId = lastCall'.portfolioId
                    /\ positions'[k].symbol = lastCall'.symbol}
    IN (/\ lastCall'.op = "positionStore.executeTrade"
        /\ e # 0
        /\ positions[e].side = lastCall'.side)
       => /\ Cardinality(mine) = 1
          /\ \A k \in mine :
                 /\ positions'[k].side = lastCall'.side
                 /\ positions'[k].quantity = positions[e].quantity + lastCall'.quantity
                 /\ IsFinite(positions'[k].entryPrice)
                 /\ IsWeightedAverage(positions'[k].entryPrice, positions[e].quantity,
                                      positions[e].entryPrice,
                                      lastCall'.quantity, lastCall'.price)

\* C3: average-cost merge: a trade on the side of an existing open position for the
\* symbol results in a single position for that symbol with
\* quantity = oldQuantity + quantity and
\* entryPrice = (oldQuantity * oldEntryPrice + quantity * price) / (oldQuantity + quantity),
\* in usePortfolioStore.executeTrade and in usePositionStore.executeTrade.
C3_AverageCostMerge == [][MergeInPortfolioStore /\ MergeInPositionStore]_vars

\* A buy of 2 has just been merged into a position of 1 bought at another price.
C3_Witness ==
    /\ lastCall.op = "executeTrade"
    /\ lastCall.type = "buy"
    /\ lastCall.result
    /\ lastCall.quantity = 2
    /\ ActiveIndex # 0
    /\ HeldIndex(lastCall.symbol) # 0
    /\ Held(lastCall.symbol).quantity = 3
    /\ Held(lastCall.symbol).entryPrice.den = 3

\* C4: partial close: a sell with 0 < quantity < position.quantity leaves the position
\* in place with its quantity reduced by the sold quantity and its entryPrice unchanged,
\* and credits the balance by quantity * price.
C4_PartialClosePreservesCostBasis ==
    [][(/\ IsTradeCall
        /\ lastCall'.type = "sell"
        /\ ActiveIndex # 0
        /\ HeldIndex(lastCall'.symbol) # 0
        /\ 0 < lastCall'.quantity
        /\ lastCall'.quantity < Held(lastCall'.symbol).quantity)
       => LET k == HeldIndex(lastCall'.symbol)
              old == Held(lastCall'.symbol)
              after == ActiveAfter.positions
          IN /\ Len(after) = Len(Active.positions)
             /\ after[k].id = old.id
             /\ after[k].symbol = old.symbol
             /\ after[k].quantity = old.quantity - lastCall'.quantity
             /\ after[k].entryPrice = old.entryPrice
             /\ ActiveAfter.balance
                    = Active.balance + lastCall'.quantity * lastCall'.price]_vars

\* 1 unit of a merged position of 3 has been sold at a price that is not its entry price.
C4_Witness ==
    /\ lastCall.op = "executeTrade"
    /\ lastCall.type = "sell"
    /\ lastCall.result
    /\ lastCall.quantity = 1
    /\ ActiveIndex # 0
    /\ HeldIndex(lastCall.symbol) # 0
    /\ Held(lastCall.symbol).quantity = 2
    /\ Held(lastCall.symbol).entryPrice # Num(lastCall.price)

\* C5: full close: a sell of exactly the held quantity, through executeTrade or through
\* closePosition, leaves no open position for the symbol in the active portfolio and
\* adds exactly one transaction.
C5_FullCloseRemovesPosition ==
    [][(/\ IsTradeCall \/ IsCloseCall
        /\ ActiveIndex # 0
        /\ CallTrade.found
        /\ CallTrade.type = "sell"
        /\ HeldIndex(CallTrade.symbol) # 0
        /\ CallTrade.quantity = Held(CallTrade.symbol).quantity)
       => /\ PositionsOf(ActiveAfter.positions, CallTrade.symbol) = {}
          /\ Len(ActiveAfter.transactions) = Len(Active.transactions) + 1]_vars

\* closePosition has closed a position of the active portfolio, which holds none now
\* and has a buy and a sell in its log.
C5_Witness ==
    /\ lastCall.op = "closePosition"
    /\ lastCall.result
    /\ ActiveIndex # 0
    /\ Active.positions = <<>>
    /\ Len(Active.transactions) = 2

\* C6: a sell for a symbol with no open position in the active portfolio, or with a
\* quantity greater than the held quantity, returns false and leaves balance,
\* positions and transactions unchanged.
C6_SellWithoutHoldingRejected ==
    [][(/\ IsTradeCall
        /\ lastCall'.type = "sell"
        /\ \/ ActiveIndex = 0
           \/ HeldIndex(lastCall'.symbol) = 0
           \/ lastCall'.quantity > Held(lastCall'.symbol).quantity)
       => (lastCall'.result = FALSE /\ LedgerUnchanged)]_vars

\* A sell of 2 was rejected by a portfolio that holds 1 of the symbol.
C6_Witness ==
    /\ lastCall.op = "executeTrade"
    /\ lastCall.type = "sell"
    /\ lastCall.result = FALSE
    /\ lastCall.quantity = 2
    /\ ActiveIndex # 0
    /\ HeldIndex(lastCall.symbol) # 0
    /\ Held(lastCall.symbol).quantity = 1

\* C7: executeTrade called with a non-positive quantity or a non-positive price
\* returns false and performs no mutation of balance, positions or transactions.
C7_InvalidInputRejected ==
    [][(/\ IsTradeCall
        /\ lastCall'.quantity <= 0 \/ lastCall'.price <= 0)
       => (lastCall'.result = FALSE /\ LedgerUnchanged)]_vars

\* C8: the transaction log is append-only with one record per executed trade: after an
\* executeTrade or closePosition call the active portfolio's log is the log before the
\* call followed by one transaction carrying the side, symbol, quantity and price of
\* the call if it returned true, and the log before the call if it returned false; no
\* other log changes.
C8_TransactionLogAppendOnly ==
    [][(IsTradeCall \/ IsCloseCall)
       => /\ Len(portfolios') = Len(portfolios)
          /\ \A i \in 1..Len(portfolios) :
                 LET before == portfolios[i].transactions
                     after == portfolios'[i].transactions
                 IN IF i = ActiveIndex /\ lastCall'.result
                    THEN /\ Len(after) = Len(before) + 1
                         /\ SubSeq(after, 1, Len(before)) = before
                         /\ CallTrade.found
                         /\ after[Len(after)].type = CallTrade.type
                         /\ after[Len(after)].symbol = CallTrade.symbol
                         /\ after[Len(after)].quantity = CallTrade.quantity
                         /\ after[Len(after)].price = CallTrade.price
                         /\ after[Len(after)].portfolioId = activePortfolioId
                    ELSE after = before]_vars

\* A third transaction, a sell, has been appended to the active portfolio's log.
C8_Witness ==
    /\ lastCall.op \in {"executeTrade", "closePosition"}
    /\ lastCall.result
    /\ ActiveIndex # 0
    /\ Len(Active.transactions) = 3
    /\ Active.transactions[3].type = "sell"
    /\ Active.transactions[1].type = "buy"

\* C9: every open position of every portfolio has quantity > 0: a position whose
\* quantity reaches zero is removed.
C9_PositionQuantityPositive ==
    \A i \in 1..Len(portfolios) :
        \A k \in 1..Len(portfolios[i].positions) :
            portfolios[i].positions[k].quantity > 0

\* A sell of the whole held quantity has been executed: the symbol is no longer held.
C9_Witness ==
    /\ lastCall.op = "executeTrade"
    /\ lastCall.type = "sell"
    /\ lastCall.result
    /\ ActiveIndex # 0
    /\ HeldIndex(lastCall.symbol) = 0
    /\ Len(Active.transactions) >= 2

\* C10: each portfolio holds at most one open position per symbol.
C10_OnePositionPerSymbol ==
    \A i \in 1..Len(portfolios) :
        \A k, m \in 1..Len(portfolios[i].positions) :
            portfolios[i].positions[k].symbol = portfolios[i].positions[m].symbol
                => k = m

\* A second buy of a symbol has been executed and the portfolio holds one position
\* for it, of both fills.
C10_Witness ==
    /\ lastCall.op = "executeTrade"
    /\ lastCall.type = "buy"
    /\ lastCall.result
    /\ ActiveIndex # 0
    /\ Cardinality(PositionsOf(Active.positions, lastCall.symbol)) = 1
    /\ Held(lastCall.symbol).quantity > lastCall.quantity

\* C11: no overdraft by trading: after any sequence of executeTrade and closePosition
\* calls with quantity > 0 and price > 0 on newly created portfolios, every portfolio's
\* balance is >= 0.
C11_NoOverdraft ==
    \A i \in 1..Len(portfolios) : portfolios[i].balance >= 0

\* A buy has spent the whole balance of the active portfolio, and a further buy has been
\* rejected.
C11_Witness ==
    /\ lastCall.op = "executeTrade"
    /\ lastCall.type = "buy"
    /\ lastCall.result = FALSE
    /\ ActiveIndex # 0
    /\ Active.balance = 0
    /\ Len(Active.positions) = 2

\* The open positions of the active portfolio with a given id.
PositionsWithId(positionId) ==
    {k \in 1..Len(Active.positions) : Active.positions[k].id = positionId}

\* C14: closePosition(positionId, price) returns false and changes nothing when
\* positionId is not an open position of the active portfolio; otherwise its return
\* value and the resulting portfolios are those of executeTrade selling the position's
\* symbol and whole quantity at the given price.
C14_ClosePositionIsSell ==
    [][IsCloseCall
       => IF ActiveIndex = 0 THEN lastCall'.result = FALSE /\ LedgerUnchanged
          ELSE IF PositionsWithId(lastCall'.positionId) = {}
               THEN lastCall'.result = FALSE /\ LedgerUnchanged
          ELSE \A k \in PositionsWithId(lastCall'.positionId) :
                   LET sell == TradeOutcome(portfolios, activePortfolioId, idCounter,
                                   [symbol |-> Active.positions[k].symbol,
                                    type |-> "sell",
                                    quantity |-> Active.positions[k].quantity,
                                    price |-> lastCall'.price])
                   IN /\ lastCall'.result = sell.result
                      /\ portfolios' = sell.portfolios
                      /\ activePortfolioId' = activePortfolioId]_vars

\* closePosition has sold a merged position of 3 units in one transaction.
C14_Witness ==
    /\ lastCall.op = "closePosition"
    /\ lastCall.result
    /\ ActiveIndex # 0
    /\ Len(Active.transactions) = 3
    /\ Active.transactions[3].type = "sell"
    /\ Active.transactions[3].quantity = 3
    /\ Active.transactions[3].price = lastCall.price

\* C15: deletePortfolio never leaves the store empty: after the call the store holds at
\* least one portfolio, and when no portfolio remained it holds exactly one new
\* portfolio with balance = initialBalance = 100000, no positions and no transactions,
\* which is the active one.
C15_DeleteKeepsOnePortfolio ==
    [][lastCall'.op = "deletePortfolio"
       => /\ Len(portfolios') >= 1
          /\ (\A i \in 1..Len(portfolios) : portfolios[i].id = lastCall'.portfolioId)
             => /\ Len(portfolios') = 1
                /\ \A i \in 1..Len(portfolios) : portfolios'[1].id # portfolios[i].id
                /\ portfolios'[1].balance = 100000
                /\ portfolios'[1].initialBalance = 100000
                /\ portfolios'[1].positions = <<>>
                /\ portfolios'[1].transactions = <<>>
                /\ activePortfolioId' = portfolios'[1].id]_vars

\* The only portfolio, one that had traded, was deleted: a new default portfolio is the
\* active one.
C15_Witness ==
    /\ lastCall.op = "deletePortfolio"
    /\ lastCall.portfolioId < idCounter - 1
    /\ Len(portfolios) = 1
    /\ portfolios[1].id = idCounter
    /\ portfolios[1].name = "Default Portfolio"
    /\ activePortfolioId = idCounter

\* C16: setActivePortfolio with an id that matches no existing portfolio is a no-op:
\* activePortfolioId and every portfolio are unchanged.
C16_SetActiveUnknownIsNoOp ==
    [][(/\ lastCall'.op = "setActivePortfolio"
        /\ \A i \in 1..Len(portfolios) : portfolios[i].id # lastCall'.portfolioId)
       => /\ activePortfolioId' = activePortfolioId
          /\ portfolios' = portfolios]_vars

\* setActivePortfolio was called with an id of no portfolio while two portfolios exist
\* and the second one is active.
C16_Witness ==
    /\ lastCall.op = "setActivePortfolio"
    /\ \A i \in 1..Len(portfolios) : portfolios[i].id # lastCall.portfolioId
    /\ Len(portfolios) = 2
    /\ activePortfolioId = portfolios[2].id

\* C17: createPortfolio adds exactly one portfolio with balance = currentBalance =
\* initialBalance = 100000, empty positions and empty transactions, and leaves the
\* existing portfolios unchanged; the first portfolio becomes the active one, and when
\* another portfolio is already active activePortfolioId is unchanged.
C17_CreatePortfolio ==
    [][lastCall'.op = "createPortfolio"
       => LET new == portfolios'[Len(portfolios')]
          IN /\ Len(portfolios') = Len(portfolios) + 1
             /\ SubSeq(portfolios', 1, Len(portfolios)) = portfolios
             /\ new.id = lastCall'.result
             /\ \A i \in 1..Len(portfolios) : portfolios[i].id # new.id
             /\ new.balance = 100000
             /\ new.currentBalance = 100000
             /\ new.initialBalance = 100000
             /\ new.positions = <<>>
             /\ new.transactions = <<>>
             /\ (Len(portfolios) = 0) => activePortfolioId' = new.id
             /\ (ActiveIndex # 0) => activePortfolioId' = activePortfolioId]_vars

\* A second portfolio was created while the first one, which has traded, stays active.
C17_Witness ==
    /\ lastCall.op = "createPortfolio"
    /\ Len(portfolios) = 2
    /\ portfolios[2].id = lastCall.result
    /\ activePortfolioId = portfolios[1].id
    /\ Len(portfolios[1].transactions) > 0

RECURSIVE MarkedValue(_, _)
\* the sum over the positions pos of quantity * (the map's price for the symbol if it
\* has one, else the position's entryPrice)
MarkedValue(pos, prices) ==
    IF pos = <<>> THEN Num(0)
    ELSE Add(MulInt(IF Head(pos).symbol \in DOMAIN prices
                    THEN Num(prices[Head(pos).symbol])
                    ELSE Head(pos).entryPrice,
                    Head(pos).quantity),
             MarkedValue(Tail(pos), prices))

\* The step is a call of getPortfolioValue or of its alias calculatePortfolioValue.
IsValueCall == lastCall'.op \in {"getPortfolioValue", "calculatePortfolioValue"}

\* C18: getPortfolioValue(portfolioId, prices) and its alias calculatePortfolioValue
\* return balance + the sum over the open positions of quantity * (prices[symbol] if
\* the map has a price for the symbol, else the position's entryPrice); exactly the
\* balance for a portfolio with no positions, and 0 for an unknown portfolioId.
C18_PortfolioValue ==
    [][IsValueCall
       => LET mine == {i \in 1..Len(portfolios) : portfolios[i].id = lastCall'.portfolioId}
          IN /\ (mine = {}) => lastCall'.result = Num(0)
             /\ \A i \in mine :
                    /\ lastCall'.result
                           = Add(Num(portfolios[i].balance),
                                 MarkedValue(portfolios[i].positions,
                                             lastCall'.currentPrices))
                    /\ (portfolios[i].positions = <<>>)
                           => lastCall'.result = Num(portfolios[i].balance)]_vars

ValuationOps ==
    {"getPortfolioValue", "calculatePortfolioValue", "getTotalPnL", "getPortfolioStats"}

\* What the valuation function op returns for the given stores and arguments.
ValuationResult(op, ps, pos, portfolioId, currentPrices) ==
    IF op = "getTotalPnL" THEN TotalPnL(ps, portfolioId, currentPrices)
    ELSE IF op = "getPortfolioStats" THEN PortfolioStats(pos, portfolioId, currentPrices)
    ELSE PortfolioValue(ps, portfolioId, currentPrices)

\* C19: valuation is read-only: getPortfolioValue, getTotalPnL and
\* calculatePortfolioValue of usePortfolioStore and getPortfolioStats of
\* usePositionStore leave the state of both stores unchanged, so the same call made
\* again on the resulting state returns the same result.
C19_ValuationReadOnly ==
    [][lastCall'.op \in ValuationOps
       => /\ portfolios' = portfolios
          /\ activePortfolioId' = activePortfolioId
          /\ positions' = positions
          /\ transactions' = transactions
          /\ lastCall'.result
                 = ValuationResult(lastCall'.op, portfolios', positions',
                                   lastCall'.portfolioId, lastCall'.currentPrices)]_vars

\* getPortfolioValue has valued a portfolio holding two positions, one of them at the
\* map's price and the other at its entry price, above its cash balance.
C19_Witness ==
    /\ lastCall.op = "getPortfolioValue"
    /\ DOMAIN lastCall.currentPrices = {"BTC"}
    /\ lastCall.currentPrices["BTC"] = 25000
    /\ \E i \in 1..Len(portfolios) :
           /\ portfolios[i].id = lastCall.portfolioId
           /\ Len(portfolios[i].positions) = 2
           /\ Greater(lastCall.result, Num(portfolios[i].balance))
           /\ lastCall.result # Add(Num(portfolios[i].balance),
                                    CostBasis(portfolios[i].positions))

\* The positions of pos in symbols other than symbol, in order.
OtherPositions(pos, symbol) == SelectSeq(pos, LAMBDA p : p.symbol # symbol)

\* C26: frame of a trade: a call of executeTrade or closePosition, accepted or not,
\* leaves activePortfolioId, the number and order of the portfolios, every portfolio
\* but the active one, the active portfolio's id, name and initialBalance, its positions
\* in symbols other than the traded one, and the state of usePositionStore unchanged.
C26_TradeFrame ==
    [][IsTradeCall \/ IsCloseCall
       => /\ activePortfolioId' = activePortfolioId
          /\ Len(portfolios') = Len(portfolios)
          /\ \A i \in 1..Len(portfolios) :
                 /\ portfolios'[i].id = portfolios[i].id
                 /\ portfolios'[i].name = portfolios[i].name
                 /\ portfolios'[i].initialBalance = portfolios[i].initialBalance
                 /\ portfolios[i].id # activePortfolioId => portfolios'[i] = portfolios[i]
          /\ IF ActiveIndex # 0 /\ CallTrade.found
             THEN OtherPositions(ActiveAfter.positions, CallTrade.symbol)
                      = OtherPositions(Active.positions, CallTrade.symbol)
             ELSE portfolios' = portfolios
          /\ <<positions, transactions, orders>>' = <<positions, transactions, orders>>]_vars

\* An accepted buy of BTC by the active portfolio, which held ETH and still does.
C26_Witness ==
    /\ lastCall.op = "executeTrade"
    /\ lastCall.symbol = "BTC"
    /\ lastCall.result
    /\ ActiveIndex # 0
    /\ Len(Active.transactions) = 2
    /\ PositionsOf(Active.positions, "ETH") # {}
    /\ PositionsOf(Active.positions, "BTC") # {}

\* The cash flow of a log: + quantity * price of every sell, - that of every buy.
RECURSIVE CashFlow(_)
CashFlow(txs) ==
    IF txs = <<>> THEN 0
    ELSE (IF Head(txs).type = "sell" THEN 1 ELSE -1) * Head(txs).quantity * Head(txs).price
             + CashFlow(Tail(txs))

\* C27: cash agrees with the log: the balance of every portfolio is its initialBalance
\* minus quantity * price of its buy transactions plus quantity * price of its sell
\* transactions.
C27_CashAgreesWithLog ==
    \A i \in 1..Len(portfolios) :
        portfolios[i].balance
            = portfolios[i].initialBalance + CashFlow(portfolios[i].transactions)

\* A portfolio with buys and a sell of two units in its log, and a balance that is not
\* the initial one.
C27_Witness ==
    \E i \in 1..Len(portfolios) :
        /\ Len(portfolios[i].transactions) = 3
        /\ portfolios[i].transactions[3].type = "sell"
        /\ portfolios[i].transactions[3].quantity = 2
        /\ portfolios[i].balance # portfolios[i].initialBalance

(***************************************************************************)
(* Properties of usePortfolioStore under resets and updates.               *)
(***************************************************************************)
\* C24: currentBalance is an alias of balance: every portfolio of the store has
\* currentBalance = balance.
C24_CurrentBalanceIsBalance ==
    \A i \in 1..Len(portfolios) : portfolios[i].currentBalance = portfolios[i].balance

\* C25: activePortfolioId is null exactly when the store has no portfolios, and
\* otherwise it is the id of a portfolio of the store.
C25_ActivePointer ==
    /\ activePortfolioId = NullId <=> Len(portfolios) = 0
    /\ activePortfolioId # NullId
           => \E i \in 1..Len(portfolios) : portfolios[i].id = activePortfolioId

\* resetPortfolios has emptied a store in which a portfolio had traded.
C25_Witness ==
    /\ lastCall.op = "resetPortfolios"
    /\ idCounter >= 3
    /\ Len(portfolios) = 0
    /\ activePortfolioId = NullId

(***************************************************************************)
(* Properties of the orders of usePositionStore.                           *)
(***************************************************************************)
\* The call is a fillOrder or a cancelOrder of an order that is filled or cancelled.
OnTerminalOrder ==
    /\ lastCall'.op \in {"fillOrder", "cancelOrder"}
    /\ \E i \in 1..Len(orders) :
           orders[i].id = lastCall'.id /\ orders[i].status \in {"filled", "cancelled"}

\* C21: an order is created with status pending; the status of an order changes only
\* from pending to filled or from pending to cancelled; fillOrder or cancelOrder of an
\* order that is filled or cancelled leaves every status as it is and executes no trade
\* (positions and transactions are unchanged).
C21_OrderLifecycle ==
    [][/\ Len(orders') >= Len(orders)
       /\ \A i \in 1..Len(orders') :
              IF i > Len(orders)
              THEN orders'[i].status = "pending"
              ELSE orders'[i].status # orders[i].status
                       => /\ orders[i].status = "pending"
                          /\ orders'[i].status \in {"filled", "cancelled"}
       /\ OnTerminalOrder
              => /\ positions' = positions
                 /\ transactions' = transactions]_vars

\* The positions of a portfolio in a symbol, in usePositionStore.
OpenPositions(pos, portfolioId, symbol) ==
    {k \in 1..Len(pos) : pos[k].portfolioId = portfolioId /\ pos[k].symbol = symbol}

\* The call is an executeTrade of usePositionStore on the side opposite to the position
\* held in the symbol, for exactly the quantity held.
IsPositionStoreFullClose ==
    /\ lastCall'.op = "positionStore.executeTrade"
    /\ OpenPositions(positions, lastCall'.portfolioId, lastCall'.symbol) # {}
    /\ \A k \in OpenPositions(positions, lastCall'.portfolioId, lastCall'.symbol) :
           /\ positions[k].side # lastCall'.side
           /\ positions[k].quantity = lastCall'.quantity

\* C22: a full close by usePositionStore.executeTrade leaves no open position in the
\* symbol and adds exactly one transaction to the store's transactions.
C22_PositionStoreFullClose ==
    [][IsPositionStoreFullClose
       => /\ OpenPositions(positions', lastCall'.portfolioId, lastCall'.symbol) = {}
          /\ Len(transactions') = Len(transactions) + 1]_vars

(***************************************************************************)
(* Properties of the analytics.                                            *)
(***************************************************************************)
\* The transactions of a log bear strictly increasing timestamps.
StrictlyTimed(txs) ==
    \A i \in 1..Len(txs) : \A j \in 1..Len(txs) :
        i < j => txs[i].timestamp < txs[j].timestamp

\* The cost of quantity units taken from the front of a queue of lots.
RECURSIVE LotsCost(_, _)
LotsCost(lots, quantity) ==
    IF quantity = 0 \/ lots = <<>> THEN 0
    ELSE IF Head(lots).quantity <= quantity
         THEN Head(lots).quantity * Head(lots).price
                  + LotsCost(Tail(lots), quantity - Head(lots).quantity)
         ELSE quantity * Head(lots).price

\* The queue of lots once quantity units have been taken from its front.
RECURSIVE LotsLeft(_, _)
LotsLeft(lots, quantity) ==
    IF quantity = 0 \/ lots = <<>> THEN lots
    ELSE IF Head(lots).quantity <= quantity
         THEN LotsLeft(Tail(lots), quantity - Head(lots).quantity)
         ELSE <<[Head(lots) EXCEPT !.quantity = @ - quantity]>> \o Tail(lots)

\* FIFO lot matching of a log in time order: every buy adds a lot to the queue of its
\* symbol, every sell takes its units from the front of the queue, so that no unit is
\* matched twice; the result is the P&L of each sell, in order.
RECURSIVE FifoMatching(_, _)
FifoMatching(txs, lots) ==
    IF txs = <<>> THEN <<>>
    ELSE LET t == Head(txs)
         IN IF t.type = "buy"
            THEN FifoMatching(Tail(txs),
                              [lots EXCEPT ![t.symbol] =
                                  Append(@, [quantity |-> t.quantity, price |-> t.price])])
            ELSE <<t.quantity * t.price - LotsCost(lots[t.symbol], t.quantity)>>
                     \o FifoMatching(Tail(txs),
                                      [lots EXCEPT ![t.symbol] = LotsLeft(@, t.quantity)])

\* C23: for the log of the active portfolio, with strictly increasing timestamps,
\* calculateTradingStatistics returns the statistics of the P&L that FIFO lot matching
\* gives each sell, where no unit of a buy is matched to more than one sell.
C23_FifoLotMatching ==
    [][(/\ lastCall'.op = "calculateTradingStatistics"
        /\ PortfolioIndex(portfolios, activePortfolioId) # 0
        /\ Len(portfolios[PortfolioIndex(portfolios, activePortfolioId)].transactions) > 0
        /\ StrictlyTimed(portfolios[PortfolioIndex(portfolios,
                                                   activePortfolioId)].transactions))
       => LET txs == portfolios[PortfolioIndex(portfolios, activePortfolioId)].transactions
          IN lastCall'.result
                 = StatisticsOf(FifoMatching(txs, [symbol \in Symbols |-> <<>>]), txs)]_vars

\* The price map holds a positive price for every symbol the portfolio holds.
PricesAllHeld(portfolio, currentPrices) ==
    \A k \in 1..Len(portfolio.positions) :
        /\ portfolio.positions[k].symbol \in DOMAIN currentPrices
        /\ currentPrices[portfolio.positions[k].symbol] > 0

\* C28: for the active portfolio, with strictly increasing transaction timestamps, and
\* a price map with a positive price for every held symbol, the totalPnL of
\* calculatePortfolioPerformance equals getTotalPnL: portfolio value - initialBalance.
C28_AnalyticsAgreeWithLedger ==
    [][(/\ lastCall'.op = "calculatePortfolioPerformance"
        /\ PortfolioIndex(portfolios, activePortfolioId) # 0
        /\ StrictlyTimed(portfolios[PortfolioIndex(portfolios,
                                                   activePortfolioId)].transactions)
        /\ PricesAllHeld(portfolios[PortfolioIndex(portfolios, activePortfolioId)],
                         lastCall'.currentPrices))
       => lastCall'.result.totalPnL
              = TotalPnL(portfolios, activePortfolioId, lastCall'.currentPrices)]_vars

(***************************************************************************)
(* Properties of the calculation worker.                                   *)
(***************************************************************************)
\* Requests are handled and responses delivered in the order of the calls, so the
\* response the client receives next answers the call with this messageId.
AnsweredRequest == worker.messageId - Len(worker.inbox) - Len(worker.outbox) + 1

\* C29: when the client receives the response that the worker computed without error
\* for a request whose timeout has not fired, the Promise of that request is resolved
\* with the result in the response (the response is matched to the request by messageId).
C29_ResponseResolvesRequest ==
    [][/\ lastCall'.op = "client.onmessage"
       /\ "error" \notin DOMAIN lastCall'.response
       /\ AnsweredRequest \in worker.pendingRequests
       => worker'.promises[AnsweredRequest]
              = [state |-> "resolved", result |-> lastCall'.response.result]]_vars

(***************************************************************************)
(* Properties of the price-feed client.                                    *)
(***************************************************************************)
\* C30: once disconnect() has been called, the client creates no WebSocket until the
\* caller calls connect(): no step other than that call adds a socket.
C30_NoSocketAfterDisconnect ==
    [][feed.stopped /\ lastCall'.op # "connect"
       => Len(feed'.sockets) = Len(feed.sockets)]_vars

(***************************************************************************)
(* Properties of TradingStorage and of the storage-backed trade.           *)
(***************************************************************************)
\* The persisted balance and positions of a portfolio, whatever the ids of the
\* positions: the balance, the number of positions and what each position holds.
Ledger(st, portfolioId) ==
    [balance |-> {p.balance : p \in GetPortfolio(st, portfolioId)},
     count |-> Cardinality(GetPositionsByPortfolio(st, portfolioId)),
     holdings |-> {[symbol |-> p.symbol, quantity |-> p.quantity,
                    entryPrice |-> p.entryPrice] :
                      p \in GetPositionsByPortfolio(st, portfolioId)}]

\* The storage after the trade of call first and then the trade of call second, each
\* run alone, from the storage st.
OneAfterTheOther(st, first, second) ==
    TradeAlone(TradeAlone(st, first.portfolioId, first.trade,
                          first.transaction.id, first.position.id).storage,
               second.portfolioId, second.trade,
               second.transaction.id, second.position.id).storage

\* Two calls on the same portfolio that started from the same stored state and have
\* both returned without an error.
BothTraded(c, d) ==
    /\ c # d
    /\ calls[c].pc = "done" /\ calls[d].pc = "done"
    /\ calls[c].error = "" /\ calls[d].error = ""
    /\ calls[c].portfolioId = calls[d].portfolioId
    /\ calls[c].before = calls[d].before

\* C12: executeTrade is a critical section per portfolio: when two storage-backed
\* trades started concurrently on the same portfolio have returned, the persisted
\* balance and positions of the portfolio are those of running the two trades one
\* after the other in some order.
C12_TradesDoNotInterleave ==
    \A c, d \in CallIds :
        BothTraded(c, d)
        => \/ Ledger(storage, calls[c].portfolioId)
                  = Ledger(OneAfterTheOther(calls[c].before, calls[c], calls[d]),
                           calls[c].portfolioId)
           \/ Ledger(storage, calls[c].portfolioId)
                  = Ledger(OneAfterTheOther(calls[c].before, calls[d], calls[c]),
                           calls[c].portfolioId)

\* What a trade on a portfolio can write: the positions, the transactions and the
\* portfolio's record.
TradeWrites(st, portfolioId) ==
    <<st.positions, st.transactions, GetPortfolio(st, portfolioId)>>

\* C13: atomicity against persistence failure: when the storage-backed trade of the
\* only caller has returned, either all its writes (position, portfolio balance,
\* transaction) are in the storage, or it has returned an error, as it does when
\* savePosition, savePortfolio or saveTransaction fails, and the positions, the
\* transactions and the portfolio are as they were when it started.
C13_TradeIsAtomic ==
    \A c \in CallIds :
        (/\ calls[c].pc = "done"
         /\ \A d \in CallIds \ {c} : calls[d].pc = "idle")
        => IF calls[c].error = ""
           THEN TradeWrites(storage, calls[c].portfolioId)
                    = TradeWrites(TradeAlone(calls[c].before, calls[c].portfolioId,
                                             calls[c].trade, calls[c].transaction.id,
                                             calls[c].position.id).storage,
                                  calls[c].portfolioId)
           ELSE TradeWrites(storage, calls[c].portfolioId)
                    = TradeWrites(calls[c].before, calls[c].portfolioId)

\* C20: backup round trip: importData called with the snapshot that exportData returned
\* in a stored state S leaves, whatever the storage holds at that time, the stored sets
\* of portfolios, positions and transactions equal to those of S.
C20_BackupRoundTrip ==
    [][lastCall'.op = "importData"
       => /\ storage'.portfolios = backup.from.portfolios
          /\ storage'.positions = backup.from.positions
          /\ storage'.transactions = backup.from.transactions]_vars

\* A snapshot with a traded portfolio, its position and its transaction has been
\* imported over a storage that held something else.
C20_Witness ==
    /\ lastCall.op = "importData"
    /\ lastCall.overwrites
    /\ storage.positions # {}
    /\ storage.transactions # {}
    /\ \E p \in storage.portfolios : p.balance < p.initialBalance

\* A behaviour of either store: the two stores share no state, and each is driven
\* from its initial state while the other stays in its own.
NextEitherStore ==
    \/ /\ positions = <<>> /\ transactions = <<>>
       /\ Next
    \/ /\ portfolios = <<>> /\ activePortfolioId = NullId
       /\ NextPositionStore

SpecEitherStore == Init /\ [][NextEitherStore]_vars

====
